---- MODULE Spec2Model ----
(***************************************************************************)
(* A model of the size-targeted generators of the repository:              *)
(*   make_docx_all_visible_stdlib.py  (image DOCX, stdlib only)            *)
(*   make_target_sized_docx.py        (image DOCX, python-docx)            *)
(*   make_png_set.py                  (PNG file set)                       *)
(*   create_big_docx_only_text.py     (text-only DOCX)                     *)
(*   create_many_bmps.py              (BMP file set)                       *)
(*   create_big_text_file.py          (text file)                          *)
(*   create_zip_with_recursion.py     (nested archives)                    *)
(*   delete_file_from_all_subfolders.py (deletion of a file by name)       *)
(*   generate_directory_structure.py  (numbered folder chains)             *)
(* Every script is one sequential run; each run is a record variable with  *)
(* a program counter field pc, and the other runs stay idle in the         *)
(* specification of one script.                                            *)
(***************************************************************************)
EXTENDS Integers, Sequences, FiniteSets, TLC

VARIABLES
    hs,   \* choose_png_height_for_size: the height search of the image DOCX
    dv,   \* make_docx_all_visible: one run of the stdlib image DOCX builder
    td,   \* make_docx: one run of the python-docx image DOCX builder
    pg,   \* pick_geometry_for_target: the height search of make_png_set
    ps,   \* main of make_png_set.py: one run, and what an earlier run wrote
    tx,   \* make_text_only_docx_random: one run of the text DOCX builder
    sy,   \* two calls of the seeded synthesizers, and the module-level
          \* generator of the random module
    un,   \* one conversion between a size with its unit and a byte count
    bm,   \* main of create_many_bmps.py: one run
    pw,   \* the pool of make_png_set.py: the tasks of one parallel run
    nz,   \* main of create_zip_with_recursion.py: one run
    dl,   \* delete_file_from_subfolders: one call
    gd,   \* create_folder_structure: one call
    bf,   \* create_big_text_file: one call
    sz    \* the size fields of the headers of one unit

vars == <<hs, dv, td, pg, ps, tx, sy, un, bm, pw, nz, dl, gd, bf, sz>>

\* the calls of the file tree scripts and of create_big_text_file, and the
\* headers of a unit
LastVars == <<dl, gd, bf, sz>>

\* the runs that only their own specification starts
LaterVars == <<un, bm, pw, nz, LastVars>>

DocxVars == <<hs, dv, td>>

PngVars == <<pg, ps>>

\* the runs that the image DOCX specification leaves idle
NotDocx == <<PngVars, tx, sy, LaterVars>>

\* the runs that the PNG set specification leaves idle
NotPng == <<DocxVars, tx, sy, LaterVars>>

\* the runs that the text DOCX specification leaves idle
NotText == <<DocxVars, PngVars, sy, LaterVars>>

\* the runs that the synthesizer specification leaves idle
NotSynth == <<DocxVars, PngVars, tx, LaterVars>>

\* the runs that the unit conversion specification leaves idle
NotUnits == <<DocxVars, PngVars, tx, sy, bm, pw, nz, LastVars>>

\* the runs that the BMP set specification leaves idle
NotBmps == <<DocxVars, PngVars, tx, sy, un, pw, nz, LastVars>>

\* the runs that the steps of the pool leave idle
NotPool == <<DocxVars, tx, sy, un, bm, nz, LastVars>>

\* the runs that the nested archive specification leaves idle
NotNested == <<DocxVars, PngVars, tx, sy, un, bm, pw, LastVars>>

\* the runs that the calls of LastVars leave idle
NotLast == <<DocxVars, PngVars, tx, sy, un, bm, pw, nz>>

-----------------------------------------------------------------------------
(* Bounds of the model *)

\* largest num_images of a modelled image DOCX run
MaxImages == 3

-----------------------------------------------------------------------------
(* The runs before they are started *)

HsIdle == [pc |-> "idle", per_image_target |-> 0, width_px |-> 0,
           height_px |-> 0, start_height |-> 0, seed |-> 0, attempts |-> 0,
           png_len |-> 0]

DvIdle == [pc |-> "idle", num_images |-> 0, target_total_bytes |-> 0,
           png_width_px |-> 0, base_fixed |-> 0, per_image_target |-> 0,
           png_height_px |-> 0, per_png_bytes |-> 0, document_xml_len |-> 0,
           i |-> 0, seed |-> 0, error |-> "none", fs |-> <<>>, zip |-> <<>>]

TdIdle == [pc |-> "idle", num_images |-> 0, target_total_bytes |-> 0,
           per_image_target |-> 0, error |-> "none", pictures |-> <<>>]

PgIdle == [pc |-> "idle", per_file_target |-> 0, width |-> 0,
           rows_in_period |-> 0, period |-> <<>>, height |-> 0,
           start_height |-> 0, png_len |-> 0]

PsArgsIdle == [num_files |-> 0, total_bytes |-> 0, png_width |-> 0,
               mode |-> "pixels", rows_unique |-> 8]

PsIdle == [pc |-> "idle", args |-> PsArgsIdle, per_file_target |-> 0,
           rows_in_period |-> 0, height |-> 0, template |-> <<>>,
           per_size |-> 0, tex_len |-> 0, i |-> 0, files |-> <<>>,
           sizes |-> <<>>, fs |-> <<>>, error |-> "none",
           run |-> 0, earlier |-> <<>>]

\* no run of make_text_only_docx_random
TxIdle == [
    pc |-> "idle", target_bytes |-> 0, margin_bytes |-> 0, chunk_bytes |-> 0,
    para_text_bytes |-> 0, seed |-> 0, effective_target |-> 0,
    other_parts_bytes |-> 0, budget_docxml |-> 0, written |-> 0,
    remaining |-> 0, chunks |-> 0, rng |-> [seed |-> 0, n |-> 0],
    zip |-> <<>>, stream |-> <<>>]

\* no call of a synthesizer yet
SyIdle == [
    pc |-> "idle", global |-> [seed |-> 0, n |-> 0], between |-> FALSE,
    first |-> [fn |-> "", args |-> <<>>, out |-> <<>>, paragraphs |-> <<>>,
               requested |-> <<>>],
    second |-> [fn |-> "", args |-> <<>>, out |-> <<>>, paragraphs |-> <<>>,
                requested |-> <<>>]]

DocxIdle == hs = HsIdle /\ dv = DvIdle /\ td = TdIdle

PngIdle == pg = PgIdle /\ ps = PsIdle

UnIdle == [pc |-> "idle", script |-> "", unit |-> "", value |-> <<>>,
           bytes |-> <<>>, back |-> <<>>]

BmIdle == [pc |-> "idle", args |-> <<>>, fs |-> {}, total_target |-> 0,
           per_image_target |-> 0, side |-> 0, i |-> 0, files |-> <<>>,
           error |-> "none", global |-> [seed |-> 0, n |-> 0]]

PwIdle == [pc |-> "idle", jobs |-> 1, template |-> <<>>, tasks |-> <<>>,
           disk |-> <<>>, results |-> <<>>]

NzIdle == [pc |-> "idle", depth |-> 0, i |-> 0, k |-> 0, current |-> <<>>,
           dirs |-> {}, files |-> {}, folder |-> <<>>,
           zip_path |-> <<>>, pending |-> {}, opened |-> <<>>,
           created |-> <<>>, error |-> "none"]

DlIdle == [pc |-> "idle", files |-> {}, target_filename |-> "",
           confirm |-> TRUE, candidates |-> <<>>, answer |-> <<>>, i |-> 0,
           deleted_count |-> 0, log |-> <<>>, result |-> -1]

GdIdle == [pc |-> "idle", args |-> <<>>, i |-> 0, base_number |-> 0,
           dirs |-> {}, made |-> <<>>]

BfIdle == [pc |-> "idle"]

SzIdle == [pc |-> "idle"]

LastIdle == dl = DlIdle /\ gd = GdIdle /\ bf = BfIdle /\ sz = SzIdle

LaterIdle ==
    un = UnIdle /\ bm = BmIdle /\ pw = PwIdle /\ nz = NzIdle /\ LastIdle

RestIdle == tx = TxIdle /\ sy = SyIdle /\ LaterIdle

-----------------------------------------------------------------------------
(* Arithmetic helpers *)

Max(a, b) == IF a >= b THEN a ELSE b

Min(a, b) == IF a <= b THEN a ELSE b

\* Python's // on integers is floor division; TLA+'s \div is too for a
\* positive divisor, which is the only use here.
FloorDiv(a, b) == a \div b

\* len(str(i)) for i >= 0, as the f-strings format an index
RECURSIVE Digits(_)
Digits(i) == IF i < 10 THEN 1 ELSE 1 + Digits(i \div 10)

RECURSIVE SumTo(_, _)
\* sum of f[i] for i in 1..n
SumTo(f, n) == IF n <= 0 THEN 0 ELSE f[n] + SumTo(f, n - 1)

RECURSIVE SeqSum(_)
SeqSum(s) == IF s = <<>> THEN 0 ELSE Head(s) + SeqSum(Tail(s))

-----------------------------------------------------------------------------
(* PNG serialisation, by length (make_docx_all_visible_stdlib.py) *)

\* _chunk: 4-byte length, 4-byte type, the data, 4-byte CRC
ChunkLen(n) == 4 + 4 + n + 4

\* zlib.compress(raw, level=0): 2-byte header, stored blocks of at most
\* 65535 bytes with a 5-byte header each (at least one block), 4-byte Adler-32.
\* The length depends on the raw length only, never on the content.
ZlibStoredLen(n) == 2 + 5 * Max(1, (n + 65534) \div 65535) + n + 4

\* len(build_png_bytes(width_px, height_px, seed)): signature, IHDR (13 bytes
\* of data), IDAT (the stored raw scanlines: one filter byte and 3 bytes per
\* pixel per row), IEND
PngLen(width_px, height_px) ==
    8 + ChunkLen(13) + ChunkLen(ZlibStoredLen((1 + 3 * width_px) * height_px))
      + ChunkLen(0)

-----------------------------------------------------------------------------
(* PNG serialisation, byte by byte.  A byte string is a sequence of         *)
(* numbers in 0..255.                                                      *)

PNG_SIG == <<137, 80, 78, 71, 13, 10, 26, 10>>

\* the chunk types b'IHDR', b'IDAT', b'IEND', b'tEXt'
TypIHDR == <<73, 72, 68, 82>>

TypIDAT == <<73, 68, 65, 84>>

TypIEND == <<73, 69, 78, 68>>

TypTEXt == <<116, 69, 88, 116>>

\* struct.pack(">I", n): four bytes, most significant first
U32BE(n) ==
    <<(n \div 16777216) % 256, (n \div 65536) % 256, (n \div 256) % 256, n % 256>>

RECURSIVE SumRange(_, _, _)
\* the sum of f[k] for k in lo..hi, by halves
SumRange(f, lo, hi) ==
    IF lo > hi THEN 0
    ELSE IF lo = hi THEN f[lo]
         ELSE LET mid == (lo + hi) \div 2
              IN SumRange(f, lo, mid) + SumRange(f, mid + 1, hi)

\* _crc32(data): binascii.crc32 is library code; the model keeps that it is a
\* function of the bytes checksummed that fits 32 bits, not its polynomial.
crc32(data) ==
    (4093 + SumRange([k \in 1..Len(data) |-> ((7 * k + 1) * (data[k] + 1)) % 65521],
                     1, Len(data))) % 65521

\* _chunk(typ, data)
chunk(typ, data) == U32BE(Len(data)) \o typ \o data \o U32BE(crc32(typ \o data))

\* the Adler-32 checksum that ends a zlib stream, most significant byte
\* first: a is 1 plus the sum of the bytes, b the sum of the running values
\* of a, both modulo 65521
Adler32(data) ==
    LET n == Len(data)
        a == (1 + SumRange(data, 1, n)) % 65521
        b == (n + SumRange([k \in 1..n |-> ((n - k + 1) * data[k]) % 65521], 1, n))
                % 65521
    IN <<b \div 256, b % 256, a \div 256, a % 256>>

RECURSIVE StoredBlocks(_)
\* the deflate stored blocks of level 0: a final-block flag, the length and
\* its complement (little endian), then the bytes themselves
StoredBlocks(raw) ==
    IF Len(raw) <= 65535
    THEN <<1, Len(raw) % 256, Len(raw) \div 256,
           255 - (Len(raw) % 256), 255 - (Len(raw) \div 256)>> \o raw
    ELSE <<0, 255, 255, 0, 0>> \o SubSeq(raw, 1, 65535)
             \o StoredBlocks(SubSeq(raw, 65536, Len(raw)))

\* zlib.compress(raw, level=0)
zlib_compress0(raw) == <<120, 1>> \o StoredBlocks(raw) \o Adler32(raw)

\* _ihdr(width, height) without the chunk framing: 8-bit RGB
IhdrData(width, height) == U32BE(width) \o U32BE(height) \o <<8, 2, 0, 0, 0>>

\* build_png_from_rows(width, rows_rgb, height) of make_png_set.py: the period
\* of rows is repeated to the height, each row after a filter byte 0
build_png_from_rows(width, rows_rgb, height) ==
    LET row_len == 3 * width
        period == Len(rows_rgb) \div row_len
        raw == [k \in 1..((row_len + 1) * height) |->
                  LET r == (k - 1) \div (row_len + 1)
                      c == (k - 1) % (row_len + 1)
                  IN IF c = 0 THEN 0 ELSE rows_rgb[(r % period) * row_len + c]]
    IN PNG_SIG \o chunk(TypIHDR, IhdrData(width, height))
               \o chunk(TypIDAT, zlib_compress0(raw))
               \o chunk(TypIEND, <<>>)

-----------------------------------------------------------------------------
(* choose_png_height_for_size(per_image_target, width_px) *)

\* lines 29-34: the estimate and the first PNG
HsCall(target, width) ==
    LET row_bytes == 1 + 3 * width
        h == Max(1, FloorDiv(target - 100, row_bytes))
    IN [pc |-> "loop", per_image_target |-> target, width_px |-> width,
        height_px |-> h, start_height |-> h, seed |-> 1234, attempts |-> 0,
        png_len |-> PngLen(width, h)]

\* line 35 with an attempt cap that small targets exceed
HsLoopCond_SmallCap(s) == s.png_len < s.per_image_target /\ s.attempts < 3

\* line 35: the loop condition
HsLoopCond(s) == s.png_len < s.per_image_target /\ s.attempts < 100000

\* lines 36-39: one iteration of the loop
HsGrow ==
    /\ hs.pc = "loop"
    /\ HsLoopCond(hs)
    /\ hs' = [hs EXCEPT !.height_px = @ + 1,
                        !.seed = @ + 1,
                        !.png_len = PngLen(hs.width_px, hs.height_px + 1),
                        !.attempts = @ + 1]
    /\ UNCHANGED <<dv, td>>
    /\ UNCHANGED NotDocx

\* line 40: the loop is left and (height_px, png) returned
HsReturn ==
    /\ hs.pc = "loop"
    /\ ~HsLoopCond(hs)
    /\ hs' = [hs EXCEPT !.pc = "returned"]
    /\ UNCHANGED <<dv, td>>
    /\ UNCHANGED NotDocx

-----------------------------------------------------------------------------
(* pick_geometry_for_target(per_file_target, width, rows_in_period)        *)
(* of make_png_set.py                                                      *)

\* secrets.token_bytes(n): n bytes from the operating system's generator.
\* The model draws every call from these fills (n bytes of one value).
TokenFills == {17, 200}

token_bytes(n, fill) == [k \in 1..n |-> fill]

\* lines 76-83: the random period, the estimate and the first PNG.
\* build_png_from_rows serialises height rows of 3 * width + 1 raw bytes the
\* way build_png_bytes does, so its length is PngLen(width, height).
PgCall(target, width, rows_in_period, fills) ==
    LET row_len == 3 * width
        row_stride == row_len + 1
        h == Max(rows_in_period, FloorDiv(target - 150, row_stride))
    IN [pc |-> "loop", per_file_target |-> target, width |-> width,
        rows_in_period |-> rows_in_period,
        period |-> [k \in 1..(row_len * rows_in_period) |->
                      fills[((k - 1) \div row_len) + 1]],
        height |-> h, start_height |-> h, png_len |-> PngLen(width, h)]

\* line 85: the loop condition
PgLoopCond(s) == s.png_len < s.per_file_target

\* lines 86-87: one iteration of the loop
PgGrow ==
    /\ pg.pc = "loop"
    /\ PgLoopCond(pg)
    /\ pg' = [pg EXCEPT !.height = @ + 1,
                        !.png_len = PngLen(pg.width, pg.height + 1)]
    /\ UNCHANGED ps
    /\ UNCHANGED NotPng

\* line 88: the loop is left and (height, period, png) returned
PgReturn ==
    /\ pg.pc = "loop"
    /\ ~PgLoopCond(pg)
    /\ pg' = [pg EXCEPT !.pc = "returned"]
    /\ UNCHANGED ps
    /\ UNCHANGED NotPng

-----------------------------------------------------------------------------
(* make_docx_all_visible(docx_path, num_images, target_total_bytes,        *)
(*                       png_width_px, page_width_cm, margins)             *)

\* len(CONTENT_TYPES.encode("utf-8")), the literal of lines 45-53
LenContentTypes == 490

\* len(RELS_ROOT.encode("utf-8")), the literal of lines 55-61
LenRelsRoot == 317

\* SAFETY_ZIP_OVERHEAD
SAFETY_ZIP_OVERHEAD == 800000

\* the default content width: page_width_cm 21.0 less the two 2.0 cm margins,
\* in millimetres
ContentWidthMm == 170

\* emu_from_cm(cm) = int((cm / 2.54) * 914400), with the width in millimetres:
\* 914400 / 25.4 = 36000 EMU per millimetre
emu_from_mm(mm) == mm * 36000

\* len(build_doc_rels(num_images)): 141 bytes of header and trailer, and per
\* image a Relationship whose length varies with rIdImg{i} and image{i:05d}
DocRelsLen(num_images) ==
    141 + SumTo([i \in 1..num_images |-> 168 + Digits(i) + Max(5, Digits(i))],
                num_images)

\* len(build_document_xml(num_images, cx_emu, cy_emu)): the head names
\* num_images once; each drawing paragraph names {i} four times, {i:05d} once
\* and cx_emu, cy_emu twice each; the tail is the 215-byte sectPr
DocumentXmlLen(num_images, cx_emu, cy_emu) ==
    570 + Digits(num_images)
    + SumTo([i \in 1..num_images |->
               1014 + 4 * Digits(i) + Max(5, Digits(i))
                    + 2 * Digits(cx_emu) + 2 * Digits(cy_emu)], num_images)
    + 215

\* lines 138-149: base_fixed, with the square placeholder display
BaseFixed(num_images) ==
    LET cx_emu == emu_from_mm(Max(5, ContentWidthMm))
    IN LenContentTypes + LenRelsRoot + DocRelsLen(num_images)
       + DocumentXmlLen(num_images, cx_emu, cx_emu)

\* line 152
BytesForMedia(target_total_bytes, num_images) ==
    Max(1, target_total_bytes - BaseFixed(num_images) - SAFETY_ZIP_OVERHEAD)

\* line 153 with the division rounding up instead of down
PerImageTarget_RoundUp(target_total_bytes, num_images) ==
    Max(1, FloorDiv(BytesForMedia(target_total_bytes, num_images) + num_images - 1,
                    num_images))

\* line 153
PerImageTarget(target_total_bytes, num_images) ==
    Max(1, FloorDiv(BytesForMedia(target_total_bytes, num_images), num_images))

\* line 160: int(cx_emu * (png_height_px / float(png_width_px))), at least 1
CyEmu(cx_emu, png_height_px, png_width_px) ==
    Max(1, (cx_emu \div png_width_px) * png_height_px
           + ((cx_emu % png_width_px) * png_height_px) \div png_width_px)

\* the target sizes of the modelled runs: non-positive ones, ones below the
\* fixed overhead, and ones around base_fixed + SAFETY_ZIP_OVERHEAD + num_images
DvDeltas(width) ==
    (-2 .. (MaxImages + 2)) \cup {150, 1000}
        \cup (IF width >= 512 THEN {7000, 70000, 500000} ELSE {})

DvTargets(n, width) ==
    {-5, 0, 1, 700000}
        \cup {BaseFixed(Max(n, 0)) + SAFETY_ZIP_OVERHEAD + d : d \in DvDeltas(width)}

DvWidths == {0, 1, 3, 512}

DvInit ==
    \E n \in 0..MaxImages, w \in DvWidths :
        \E t \in DvTargets(n, w) :
            dv = [DvIdle EXCEPT !.pc = "call", !.num_images = n,
                                !.target_total_bytes = t, !.png_width_px = w]

\* lines 132-135: the parameter checks
DvReject ==
    /\ dv.pc = "call"
    /\ dv.num_images < 1 \/ dv.png_width_px < 1
    /\ dv' = [dv EXCEPT !.pc = "raised", !.error = "ValueError"]
    /\ UNCHANGED <<hs, td>>
    /\ UNCHANGED NotDocx

\* lines 137-156: the budget, then the call of choose_png_height_for_size
DvBudget ==
    /\ dv.pc = "call"
    /\ ~(dv.num_images < 1 \/ dv.png_width_px < 1)
    /\ LET target == PerImageTarget(dv.target_total_bytes, dv.num_images)
       IN /\ dv' = [dv EXCEPT !.pc = "search",
                              !.base_fixed = BaseFixed(dv.num_images),
                              !.per_image_target = target]
          /\ hs' = HsCall(target, dv.png_width_px)
    /\ UNCHANGED td
    /\ UNCHANGED NotDocx

\* lines 156-166: the search has returned; the document XML is rebuilt with
\* the display height
DvGeometry ==
    /\ dv.pc = "search"
    /\ hs.pc = "returned"
    /\ LET cx_emu == emu_from_mm(Max(5, ContentWidthMm))
           cy_emu == CyEmu(cx_emu, hs.height_px, dv.png_width_px)
       IN dv' = [dv EXCEPT !.pc = "open",
                           !.png_height_px = hs.height_px,
                           !.per_png_bytes = hs.png_len,
                           !.document_xml_len =
                               DocumentXmlLen(dv.num_images, cx_emu, cy_emu)]
    /\ UNCHANGED <<hs, td>>
    /\ UNCHANGED NotDocx

\* line 168: zipfile.ZipFile(docx_path, "w") creates the file
DvOpenZip ==
    /\ dv.pc = "open"
    /\ dv' = [dv EXCEPT !.pc = "manifest", !.fs = Append(@, "open")]
    /\ UNCHANGED <<hs, td>>
    /\ UNCHANGED NotDocx

\* the decimal digits
DecDigit == <<"0", "1", "2", "3", "4", "5", "6", "7", "8", "9">>

RECURSIVE Str(_)
\* f"{i}" for i >= 0
Str(i) == IF i < 10 THEN DecDigit[i + 1]
          ELSE Str(i \div 10) \o DecDigit[(i % 10) + 1]

\* f"{i:05d}" for i >= 0: zeros on the left up to 5 digits, never a cut
Fmt05d(i) ==
    IF i < 10 THEN "0000" \o Str(i)
    ELSE IF i < 100 THEN "000" \o Str(i)
    ELSE IF i < 1000 THEN "00" \o Str(i)
    ELSE IF i < 10000 THEN "0" \o Str(i)
    ELSE Str(i)

\* lines 68-70: the Relationship element of image i
DocRel(i) ==
    [Id |-> "rIdImg" \o Str(i),
     Target |-> "media/image" \o Fmt05d(i) \o ".png"]

\* lines 63-73: the Relationship elements of build_doc_rels(num_images)
build_doc_rels(num_images) == [i \in 1..num_images |-> DocRel(i)]

\* line 101: the r:embed attribute of the a:blip of image i
DocEmbed(i) == "rIdImg" \o Str(i)

\* lines 86-115: the r:embed attributes of build_document_xml, one for
\* every image
build_document_xml(num_images) == [i \in 1..num_images |-> DocEmbed(i)]

\* line 183 with the index not padded
MediaName_Unpadded(i) == "word/media/image" \o Str(i) \o ".png"

\* line 183: the name of the ZIP entry of image i
MediaName(i) == "word/media/image" \o Fmt05d(i) \o ".png"

\* lines 169-172 with [Content_Types].xml written a second time in the place
\* of _rels/.rels
DvManifestPart_Repeats(k) ==
    CASE k \in {1, 2} ->
                  [part |-> "[Content_Types].xml", idx |-> 0,
                   size |-> LenContentTypes, name |-> "[Content_Types].xml",
                   refs |-> <<>>]
      [] k = 3 -> [part |-> "word/_rels/document.xml.rels", idx |-> 0,
                   size |-> DocRelsLen(dv.num_images),
                   name |-> "word/_rels/document.xml.rels",
                   refs |-> build_doc_rels(dv.num_images)]
      [] k = 4 -> [part |-> "word/document.xml", idx |-> 0,
                   size |-> dv.document_xml_len, name |-> "word/document.xml",
                   refs |-> build_document_xml(dv.num_images)]

\* lines 169-172: the four fixed parts, in this order; refs are the
\* relationships of the rels part and the embed ids of the document
DvManifestPart(k) ==
    CASE k = 1 -> [part |-> "[Content_Types].xml", idx |-> 0,
                   size |-> LenContentTypes, name |-> "[Content_Types].xml",
                   refs |-> <<>>]
      [] k = 2 -> [part |-> "_rels/.rels", idx |-> 0, size |-> LenRelsRoot,
                   name |-> "_rels/.rels", refs |-> <<>>]
      [] k = 3 -> [part |-> "word/_rels/document.xml.rels", idx |-> 0,
                   size |-> DocRelsLen(dv.num_images),
                   name |-> "word/_rels/document.xml.rels",
                   refs |-> build_doc_rels(dv.num_images)]
      [] k = 4 -> [part |-> "word/document.xml", idx |-> 0,
                   size |-> dv.document_xml_len, name |-> "word/document.xml",
                   refs |-> build_document_xml(dv.num_images)]

DvWriteManifest ==
    /\ dv.pc = "manifest"
    /\ LET k == Len(dv.zip) + 1
       IN dv' = [dv EXCEPT !.zip = Append(@, DvManifestPart(k)),
                           !.pc = IF k = 4 THEN "media" ELSE "manifest",
                           !.i = IF k = 4 THEN 1 ELSE 0,
                           !.seed = IF k = 4 THEN 10000 ELSE 0]
    /\ UNCHANGED <<hs, td>>
    /\ UNCHANGED NotDocx

\* lines 175-186: one iteration of the image loop. Every PNG of the geometry
\* has the sample's length, so the fallback of lines 181-182 writes the same
\* number of bytes.
DvWriteImage ==
    /\ dv.pc = "media"
    /\ dv.i <= dv.num_images
    /\ LET png_len == IF dv.i = 1 THEN hs.png_len
                      ELSE PngLen(dv.png_width_px, dv.png_height_px)
           written == IF png_len # dv.per_png_bytes THEN hs.png_len ELSE png_len
       IN dv' = [dv EXCEPT !.zip = Append(@, [part |-> "word/media/image",
                                              idx |-> dv.i, size |-> written,
                                              name |-> MediaName(dv.i),
                                              refs |-> <<>>]),
                           !.i = @ + 1,
                           !.seed = @ + 1]
    /\ UNCHANGED <<hs, td>>
    /\ UNCHANGED NotDocx

\* lines 186-196: the loop is over, the archive is closed
DvClose ==
    /\ dv.pc = "media"
    /\ dv.i > dv.num_images
    /\ dv' = [dv EXCEPT !.pc = "done", !.fs = Append(@, "close")]
    /\ UNCHANGED <<hs, td>>
    /\ UNCHANGED NotDocx

\* the bytes of the parts written so far
DvZipBytes == SeqSum([k \in 1..Len(dv.zip) |-> dv.zip[k].size])

\* the media parts written so far
DvMedia == {k \in 1..Len(dv.zip) : dv.zip[k].part = "word/media/image"}

-----------------------------------------------------------------------------
(* make_docx(docx_path, num_images, target_total_bytes)                    *)
(* of make_target_sized_docx.py                                            *)

\* overhead_cushion
overhead_cushion == 600000

\* line 110
TargetForImages(target_total_bytes) ==
    Max(1, target_total_bytes - overhead_cushion)

\* line 111
TdPerImageTarget(target_total_bytes, num_images) ==
    Max(1, FloorDiv(TargetForImages(target_total_bytes), num_images))

TdTargets == {-5, 0, 1, 599999} \cup {overhead_cushion + d : d \in DvDeltas(512)}

TdInit ==
    \E n \in 0..MaxImages, t \in TdTargets :
        td = [TdIdle EXCEPT !.pc = "call", !.num_images = n,
                            !.target_total_bytes = t]

\* lines 105-106
TdReject ==
    /\ td.pc = "call"
    /\ td.num_images < 1
    /\ td' = [td EXCEPT !.pc = "raised", !.error = "ValueError"]
    /\ UNCHANGED <<hs, dv>>
    /\ UNCHANGED NotDocx

\* lines 108-111
TdBudget ==
    /\ td.pc = "call"
    /\ td.num_images >= 1
    /\ td' = [td EXCEPT !.pc = "geometry",
                        !.per_image_target =
                            TdPerImageTarget(td.target_total_bytes, td.num_images)]
    /\ UNCHANGED <<hs, dv>>
    /\ UNCHANGED NotDocx

\* lines 114, 86-88 and 59-67: choose_png_geometry_for_size builds its first
\* PNG 512 pixels wide with random.Random(1234); the samples are drawn by
\* rng.randrange(0, 512) and the first one, 451, is no byte value, so the
\* store into the bytearray raises ValueError.
TdFirstPng ==
    /\ td.pc = "geometry"
    /\ td' = [td EXCEPT !.pc = "raised", !.error = "ValueError"]
    /\ UNCHANGED <<hs, dv>>
    /\ UNCHANGED NotDocx

-----------------------------------------------------------------------------
(* The image DOCX builders: one run of either *)

DocxInit ==
    /\ RestIdle
    /\ hs = HsIdle
    /\ PngIdle
    /\ \/ DvInit /\ td = TdIdle
       \/ TdInit /\ dv = DvIdle

DocxNext ==
    \/ DvReject
    \/ DvBudget
    \/ HsGrow
    \/ HsReturn
    \/ DvGeometry
    \/ DvOpenZip
    \/ DvWriteManifest
    \/ DvWriteImage
    \/ DvClose
    \/ TdReject
    \/ TdBudget
    \/ TdFirstPng

SpecDocx == DocxInit /\ [][DocxNext]_vars

-----------------------------------------------------------------------------
(* main() of make_png_set.py *)

\* largest --num-files of a modelled run
MaxFiles == 2

RECURSIVE DigitSeq(_)
\* str(i) for i >= 0, as ASCII bytes
DigitSeq(i) ==
    IF i < 10 THEN <<48 + i>> ELSE DigitSeq(i \div 10) \o <<48 + (i % 10)>>

\* f"{i:07d}": the decimal digits, padded with zeros on the left to 7
Fmt07d(i) ==
    LET d == DigitSeq(i)
    IN IF Len(d) >= 7 THEN d ELSE [k \in 1..(7 - Len(d)) |-> 48] \o d

\* "Comment".encode("latin-1")
TagComment == <<67, 111, 109, 109, 101, 110, 116>>

\* fixed_len_text_chunk(tag, content_bytes, fixed_len)
fixed_len_text_chunk(tag, content_bytes, fixed_len) ==
    LET content ==
            IF Len(content_bytes) < fixed_len
            THEN content_bytes \o [k \in 1..(fixed_len - Len(content_bytes)) |-> 32]
            ELSE IF Len(content_bytes) > fixed_len
                 THEN SubSeq(content_bytes, 1, fixed_len)
                 ELSE content_bytes
    IN chunk(TypTEXt, tag \o <<0>> \o content)

\* insert_chunk_before_iend(png_bytes, chunk): png_bytes[:-12] + chunk +
\* png_bytes[-12:]
insert_chunk_before_iend(png_bytes, c) ==
    SubSeq(png_bytes, 1, Len(png_bytes) - 12) \o c
        \o SubSeq(png_bytes, Len(png_bytes) - 11, Len(png_bytes))

\* line 121: the placeholder chunk, 48 bytes of b"X"
Placeholder == fixed_len_text_chunk(TagComment, [k \in 1..48 |-> 88], 48)

\* line 125: f"FILE_{i:07d}_UNIQ_XXXXXXXXXXXXXXXXXXXX".encode("latin-1")
FileToken(i) ==
    <<70, 73, 76, 69, 95>> \o Fmt07d(i) \o <<95, 85, 78, 73, 81, 95>>
        \o [k \in 1..20 |-> 88]

\* lines 124-128 with the placeholder left in place: the slice of line 128
\* taken as base_png[:-12]
PayloadMetadata_KeepsPlaceholder(base_png, tex_len, i) ==
    LET t == FileToken(i)
        token == IF Len(t) >= 48 THEN SubSeq(t, 1, 48)
                 ELSE t \o [k \in 1..(48 - Len(t)) |-> 32]
        texc == fixed_len_text_chunk(TagComment, token, 48)
    IN SubSeq(base_png, 1, Len(base_png) - 12) \o texc
           \o SubSeq(base_png, Len(base_png) - 11, Len(base_png))

\* lines 124-128: payload(i) of mode metadata
PayloadMetadata(base_png, tex_len, i) ==
    LET t == FileToken(i)
        token == IF Len(t) >= 48 THEN SubSeq(t, 1, 48)
                 ELSE t \o [k \in 1..(48 - Len(t)) |-> 32]
        texc == fixed_len_text_chunk(TagComment, token, 48)
    IN SubSeq(base_png, 1, Len(base_png) - 12 - tex_len) \o texc
           \o SubSeq(base_png, Len(base_png) - 11, Len(base_png))

\* payload(i) of modes pixels and strong building one row more than the
\* template has, and without the check of lines 137-138 and 149-150
PayloadRows_TallerUnchecked(width, height, rows, fills, sample_png, per_size) ==
    LET row_len == 3 * width
        p == [k \in 1..(row_len * rows) |-> fills[((k - 1) \div row_len) + 1]]
    IN build_png_from_rows(width, p, height + 1)

\* lines 133-139 and 144-151: payload(i) of modes pixels and strong, with the
\* fresh random rows drawn as fills
PayloadRows(width, height, rows, fills, sample_png, per_size) ==
    LET row_len == 3 * width
        p == [k \in 1..(row_len * rows) |-> fills[((k - 1) \div row_len) + 1]]
        png == build_png_from_rows(width, p, height)
    IN IF Len(png) # per_size THEN sample_png ELSE png

PsTotals == {-1, 0, 1, 200, 300}

PsWidths == {31, 32}

PsArgs ==
    {a \in [num_files : 0..MaxFiles, total_bytes : PsTotals, png_width : PsWidths,
            mode : {"metadata", "pixels", "strong"}, rows_unique : {1, 3, 8}] :
        /\ (a.mode # "strong") => a.rows_unique = 8
        /\ (a.mode = "strong") => a.rows_unique # 8
        /\ (a.rows_unique = 3) => a.total_bytes = 200}

PsInit == \E a \in PsArgs : ps = [PsIdle EXCEPT !.pc = "start", !.args = a, !.run = 1]

\* line 109: the output directory is created
PsMakedirs ==
    /\ ps.pc = "start"
    /\ ps' = [ps EXCEPT !.pc = "check", !.fs = Append(@, "makedirs")]
    /\ UNCHANGED pg
    /\ UNCHANGED NotPng

\* lines 110-111: the parameter checks
PsExit ==
    /\ ps.pc = "check"
    /\ ps.args.num_files < 1 \/ ps.args.png_width < 32
    /\ ps' = [ps EXCEPT !.pc = "exit", !.error = "SystemExit"]
    /\ UNCHANGED pg
    /\ UNCHANGED NotPng

\* line 114
PerFileTarget(total_bytes, num_files) == Max(1, FloorDiv(total_bytes, num_files))

\* lines 119, 131, 141-142: the number of unique rows of the template
RowsInPeriod(mode, rows_unique) ==
    IF mode = "strong" THEN Max(2, rows_unique) ELSE 1

\* lines 113-119, 131, 141-142: the per-file target and the call of
\* pick_geometry_for_target
PsBudget ==
    /\ ps.pc = "check"
    /\ ~(ps.args.num_files < 1 \/ ps.args.png_width < 32)
    /\ LET target == PerFileTarget(ps.args.total_bytes, ps.args.num_files)
           rows == RowsInPeriod(ps.args.mode, ps.args.rows_unique)
       IN /\ ps' = [ps EXCEPT !.pc = "geometry", !.per_file_target = target,
                              !.rows_in_period = rows]
          /\ \E fills \in [1..rows -> TokenFills] :
                pg' = PgCall(target, ps.args.png_width, rows, fills)
    /\ UNCHANGED NotPng

\* lines 119-123, 131-132, 142-143: the template of the mode
PsTemplate ==
    /\ ps.pc = "geometry"
    /\ pg.pc = "returned"
    /\ LET png == build_png_from_rows(pg.width, pg.period, pg.height)
           base == IF ps.args.mode = "metadata"
                   THEN insert_chunk_before_iend(png, Placeholder)
                   ELSE png
       IN ps' = [ps EXCEPT !.pc = "write", !.height = pg.height,
                           !.template = base,
                           !.per_size = Len(png),
                           !.tex_len = IF ps.args.mode = "metadata"
                                       THEN Len(Placeholder) ELSE 0,
                           !.i = 1]
    /\ UNCHANGED pg
    /\ UNCHANGED NotPng

\* lines 156-161 and 168-170: write_one for the next path, with jobs = 1
PsWriteOne ==
    /\ ps.pc = "write"
    /\ pw.jobs <= 1
    /\ ps.i <= ps.args.num_files
    /\ \E fills \in [1..ps.rows_in_period -> TokenFills] :
          LET data == IF ps.args.mode = "metadata"
                      THEN PayloadMetadata(ps.template, ps.tex_len, ps.i)
                      ELSE PayloadRows(ps.args.png_width, ps.height,
                                       ps.rows_in_period, fills, ps.template,
                                       ps.per_size)
          IN ps' = [ps EXCEPT !.files = Append(@, data),
                              !.sizes = Append(@, Len(data)),
                              !.fs = Append(@, "write"),
                              !.i = @ + 1]
    /\ UNCHANGED pg
    /\ UNCHANGED NotPng

\* lines 172-174: every path is written and the totals are printed
PsSummary ==
    /\ ps.pc = "write"
    /\ ps.i > ps.args.num_files
    /\ ps' = [ps EXCEPT !.pc = "done"]
    /\ UNCHANGED pg
    /\ UNCHANGED NotPng

\* the script is run a second time with the same arguments
PsRunAgain ==
    /\ ps.pc = "done"
    /\ ps.run = 1
    /\ ps' = [PsIdle EXCEPT !.pc = "start", !.args = ps.args, !.run = 2,
                            !.earlier = ps.files]
    /\ pg' = PgIdle
    /\ UNCHANGED NotPng

PngSetInit ==
    /\ RestIdle
    /\ DocxIdle
    /\ pg = PgIdle
    /\ PsInit

PngSetNext ==
    \/ PsMakedirs
    \/ PsExit
    \/ PsBudget
    \/ PgGrow
    \/ PgReturn
    \/ PsTemplate
    \/ PsWriteOne
    \/ PsSummary

SpecPngSet == PngSetInit /\ [][PngSetNext]_vars

\* largest --num-files of a run that is repeated
MaxFilesTwice == 1

\* the arguments of the runs that are repeated
PsArgsTwice ==
    {a \in PsArgs : /\ a.num_files \in 1..MaxFilesTwice
                    /\ a.png_width = 32
                    /\ a.total_bytes \in {1, 200}
                    /\ a.rows_unique \in {1, 8}}

PngTwiceInit ==
    /\ RestIdle
    /\ DocxIdle
    /\ pg = PgIdle
    /\ \E a \in PsArgsTwice : ps = [PsIdle EXCEPT !.pc = "start", !.args = a, !.run = 1]

PngTwiceNext ==
    \/ PsMakedirs
    \/ PsBudget
    \/ PgGrow
    \/ PgReturn
    \/ PsTemplate
    \/ PsWriteOne
    \/ PsSummary
    \/ PsRunAgain

SpecPngTwice == PngTwiceInit /\ [][PngTwiceNext]_vars

-----------------------------------------------------------------------------
(* Properties of the PNG set *)

\* C3: a run with a non-positive total size, fewer than one file or a too
\* small width performs no filesystem operation: it is rejected before the
\* output directory is created or a file written.
C3_InvalidParameterFailsFast ==
    (/\ ps.pc # "idle"
     /\ \/ ps.args.total_bytes <= 0
        \/ ps.args.num_files < 1
        \/ ps.args.png_width < 32)
    => ps.fs = <<>>

\* C5: the PNG files of a finished run add up to at most the total size asked
\* for.
C5_NeverOverTarget ==
    (ps.pc = "done") => SeqSum(ps.sizes) <= ps.args.total_bytes

\* C9: two runs with the same arguments write the same bytes.
C9_SameArgsSameBytes ==
    (ps.run = 2 /\ ps.pc = "done") => ps.files = ps.earlier

\* longest content handed to fixed_len_text_chunk in the check of its length
MaxContentLen == 50

\* file indices with 7, 8 and 10 digits
LongIndices == {9999999, 10000000, 2147483647}

\* the 12-byte IEND chunk
IendChunk == chunk(TypIEND, <<>>)

\* C10: in mode metadata every file written has the length of the template
\* base_png and differs from it only inside the tEXt chunk of 12 + 8 + 48
\* bytes that sits right before the 12-byte IEND chunk; files of distinct
\* indices differ; and fixed_len_text_chunk gives a chunk of that one length
\* for content of any length.
C10_MetadataSizeInvariance ==
    (ps.args.mode = "metadata" /\ ps.pc \in {"write", "done"}) =>
        LET L == Len(ps.template)
        IN /\ ps.tex_len = 12 + 8 + 48
           /\ SubSeq(ps.template, L - 11, L) = IendChunk
           /\ \A k \in 1..Len(ps.files) :
                 /\ Len(ps.files[k]) = L
                 /\ SubSeq(ps.files[k], 1, L - 12 - ps.tex_len)
                       = SubSeq(ps.template, 1, L - 12 - ps.tex_len)
                 /\ SubSeq(ps.files[k], L - 11 - ps.tex_len, L - 4 - ps.tex_len)
                       = U32BE(8 + 48) \o TypTEXt
                 /\ SubSeq(ps.files[k], L - 11, L) = IendChunk
                 /\ \A j \in 1..Len(ps.files) : j # k => ps.files[j] # ps.files[k]
           /\ (ps.i = 1) =>
                 /\ \A n \in 0..MaxContentLen :
                       Len(fixed_len_text_chunk(TagComment, [x \in 1..n |-> 65], 48))
                           = 12 + 8 + 48
                 /\ \A a \in LongIndices :
                       /\ Len(PayloadMetadata(ps.template, ps.tex_len, a)) = L
                       /\ \A b \in LongIndices \cup (1..MaxFiles) :
                             a # b => PayloadMetadata(ps.template, ps.tex_len, a)
                                        # PayloadMetadata(ps.template, ps.tex_len, b)

\* two files were written in mode metadata
C10_Witness ==
    /\ ps.args.mode = "metadata"
    /\ ps.pc = "done"
    /\ Len(ps.files) >= 2
    /\ ps.files[1] # ps.files[2]
    /\ Len(ps.files[1]) = Len(ps.files[2])

-----------------------------------------------------------------------------
(* The two height searches called on their own *)

\* largest of the small per-image targets, all of which are searched
MaxSearchTarget == 260

\* targets whose raw data fills one or several stored blocks
LargeSearchTargets == {65590, 65610, 131200, 500000, 700000}

SearchTargets == (1 .. MaxSearchTarget) \cup LargeSearchTargets

SearchWidths == {1, 2, 5, 32}

SearchInit ==
    /\ RestIdle
    /\ dv = DvIdle
    /\ td = TdIdle
    /\ ps = PsIdle
    /\ \/ /\ pg = PgIdle
          /\ \E t \in SearchTargets, w \in SearchWidths : hs = HsCall(t, w)
       \/ /\ hs = HsIdle
          /\ \E t \in SearchTargets, w \in SearchWidths, r \in {1, 2, 3} :
                \E fills \in [1..r -> TokenFills] : pg = PgCall(t, w, r, fills)

SearchNext ==
    \/ HsGrow
    \/ HsReturn
    \/ PgGrow
    \/ PgReturn

SpecSearch == SearchInit /\ [][SearchNext]_vars

\* C7: for a per-image target >= 1 and a width >= 1 the PNG a height search
\* returns is at least as long as the target, the height was only increased
\* (by one per attempt), and the attempt cap of choose_png_height_for_size
\* was not reached.
C7_SearchPostcondition ==
    /\ (hs.pc \in {"loop", "returned"}) =>
          /\ hs.height_px = hs.start_height + hs.attempts
          /\ hs.attempts < 100000
          /\ hs.png_len = PngLen(hs.width_px, hs.height_px)
    /\ (hs.pc = "returned") => hs.png_len >= hs.per_image_target
    /\ (pg.pc \in {"loop", "returned"}) =>
          /\ pg.height >= pg.start_height
          /\ pg.png_len = PngLen(pg.width, pg.height)
    /\ (pg.pc = "returned") => pg.png_len >= pg.per_file_target

\* a search that had to grow the height several times has returned
C7_Witness ==
    /\ hs.pc = "returned"
    /\ hs.attempts >= 5
    /\ hs.png_len >= hs.per_image_target

-----------------------------------------------------------------------------
(* Properties of the byte budget *)

\* what is left of the target after the fixed overhead
DvRemainder == dv.target_total_bytes - dv.base_fixed - SAFETY_ZIP_OVERHEAD

TdRemainder == td.target_total_bytes - overhead_cushion

DvBudgeted == dv.pc \in {"search", "open", "manifest", "media", "done"}

\* C1: once a builder has computed its budget for num_images >= 1 and a
\* target whose remainder after the fixed overhead is at least num_images,
\* the per-image target is the floor of remainder / num_images, and
\* num_images * per_image_target + fixed overhead <= target_total_bytes.
C1_BudgetInequality ==
    /\ (DvBudgeted /\ dv.num_images >= 1 /\ DvRemainder >= dv.num_images) =>
          /\ dv.num_images * dv.per_image_target <= DvRemainder
          /\ DvRemainder < dv.num_images * (dv.per_image_target + 1)
          /\ dv.num_images * dv.per_image_target + dv.base_fixed
                + SAFETY_ZIP_OVERHEAD <= dv.target_total_bytes
    /\ (td.pc = "geometry" /\ td.num_images >= 1 /\ TdRemainder >= td.num_images) =>
          /\ td.num_images * td.per_image_target <= TdRemainder
          /\ TdRemainder < td.num_images * (td.per_image_target + 1)
          /\ td.num_images * td.per_image_target + overhead_cushion
                <= td.target_total_bytes

\* a budget was computed for several images and a remainder they do not divide
C1_Witness ==
    /\ DvBudgeted
    /\ dv.num_images >= 2
    /\ DvRemainder >= dv.num_images
    /\ DvRemainder % dv.num_images # 0
    /\ dv.per_image_target >= 2

\* C2: a run whose target less the fixed overhead is smaller than the number
\* of images signals an error and emits no content unit.
C2_InsufficientBudgetSignalled ==
    (/\ dv.pc # "idle"
     /\ dv.num_images >= 1
     /\ dv.png_width_px >= 1
     /\ dv.target_total_bytes - BaseFixed(dv.num_images) - SAFETY_ZIP_OVERHEAD
           < dv.num_images)
    => /\ DvMedia = {}
       /\ dv.pc \in {"call", "raised"}

-----------------------------------------------------------------------------
(* The pseudo-random generator: random.Random(seed), and the module-level   *)
(* generator behind random.seed and random.randrange.  A generator is the   *)
(* seed it was given and the number of words it has produced; the word it   *)
(* produces next is a function of the two, which is all the scripts rely on *)

Abs(x) == IF x < 0 THEN -x ELSE x

\* random.Random(seed), random.seed(seed): an integer seed is used by its
\* absolute value, and the generator starts at its first word
Random(seed) == [seed |-> Abs(seed), n |-> 0]

\* the generator after k more words
Advance(rng, k) == [rng EXCEPT !.n = @ + k]

\* the next word of the generator
RngWord(rng) ==
    LET x == ((rng.seed % 32749) * 31 + rng.n * 17 + 7) % 32749
        y == (x * x) % 32749
    IN  (y * 75 + x + rng.n) % 32749

\* rng.randrange(k), from the next word
randrange(rng, k) == RngWord(rng) % k

\* rng.randint(a, b), from the next word
randint(rng, a, b) == a + (RngWord(rng) % (b - a + 1))

\* rng.choice(seq), from the next word
choice(rng, seq) == seq[1 + (RngWord(rng) % Len(seq))]

-----------------------------------------------------------------------------
(* create_big_docx_only_text.py: the parts and the text synthesizer *)

\* len(CONTENT_TYPES.encode("utf-8")), lines 18-25
TextLenContentTypes == 436

\* len(RELS_ROOT.encode("utf-8")), lines 27-33
TextLenRelsRoot == 317

\* lines 35-40: the XML declaration, the opening of w:document and w:body,
\* and the title paragraph, as UTF-8 bytes
DOC_HEAD ==
    <<60, 63, 120, 109, 108, 32, 118, 101, 114, 115, 105, 111, 110, 61, 34, 49>>
    \o <<46, 48, 34, 32, 101, 110, 99, 111, 100, 105, 110, 103, 61, 34, 85, 84>>
    \o <<70, 45, 56, 34, 32, 115, 116, 97, 110, 100, 97, 108, 111, 110, 101, 61>>
    \o <<34, 121, 101, 115, 34, 63, 62, 10, 60, 119, 58, 100, 111, 99, 117, 109>>
    \o <<101, 110, 116, 32, 120, 109, 108, 110, 115, 58, 119, 61, 34, 104, 116, 116>>
    \o <<112, 58, 47, 47, 115, 99, 104, 101, 109, 97, 115, 46, 111, 112, 101, 110>>
    \o <<120, 109, 108, 102, 111, 114, 109, 97, 116, 115, 46, 111, 114, 103, 47, 119>>
    \o <<111, 114, 100, 112, 114, 111, 99, 101, 115, 115, 105, 110, 103, 109, 108, 47>>
    \o <<50, 48, 48, 54, 47, 109, 97, 105, 110, 34, 10, 32, 32, 32, 32, 32>>
    \o <<32, 32, 32, 32, 32, 32, 32, 120, 109, 108, 110, 115, 58, 114, 61, 34>>
    \o <<104, 116, 116, 112, 58, 47, 47, 115, 99, 104, 101, 109, 97, 115, 46, 111>>
    \o <<112, 101, 110, 120, 109, 108, 102, 111, 114, 109, 97, 116, 115, 46, 111, 114>>
    \o <<103, 47, 111, 102, 102, 105, 99, 101, 68, 111, 99, 117, 109, 101, 110, 116>>
    \o <<47, 50, 48, 48, 54, 47, 114, 101, 108, 97, 116, 105, 111, 110, 115, 104>>
    \o <<105, 112, 115, 34, 62, 10, 32, 32, 60, 119, 58, 98, 111, 100, 121, 62>>
    \o <<10, 32, 32, 32, 32, 60, 119, 58, 112, 62, 60, 119, 58, 114, 62, 60>>
    \o <<119, 58, 116, 62, 84, 101, 120, 116, 45, 111, 110, 108, 121, 32, 103, 101>>
    \o <<110, 101, 114, 97, 116, 101, 100, 32, 100, 111, 99, 117, 109, 101, 110, 116>>
    \o <<32, 40, 114, 97, 110, 100, 111, 109, 105, 122, 101, 100, 41, 46, 60, 47>>
    \o <<119, 58, 116, 62, 60, 47, 119, 58, 114, 62, 60, 47, 119, 58, 112, 62>>
    \o <<10>>

\* lines 42-49: w:sectPr and the closing of w:body and w:document
DOC_TAIL ==
    <<32, 32, 32, 32, 60, 119, 58, 115, 101, 99, 116, 80, 114, 62, 10, 32>>
    \o <<32, 32, 32, 32, 32, 60, 119, 58, 112, 103, 83, 122, 32, 119, 58, 119>>
    \o <<61, 34, 49, 49, 57, 48, 55, 34, 32, 119, 58, 104, 61, 34, 49, 54>>
    \o <<56, 52, 48, 34, 47, 62, 10, 32, 32, 32, 32, 32, 32, 60, 119, 58>>
    \o <<112, 103, 77, 97, 114, 32, 119, 58, 116, 111, 112, 61, 34, 49, 49, 51>>
    \o <<52, 34, 32, 119, 58, 114, 105, 103, 104, 116, 61, 34, 49, 49, 51, 52>>
    \o <<34, 32, 119, 58, 98, 111, 116, 116, 111, 109, 61, 34, 49, 49, 51, 52>>
    \o <<34, 32, 119, 58, 108, 101, 102, 116, 61, 34, 49, 49, 51, 52, 34, 10>>
    \o <<32, 32, 32, 32, 32, 32, 32, 32, 32, 32, 32, 32, 32, 32, 32, 119>>
    \o <<58, 104, 101, 97, 100, 101, 114, 61, 34, 55, 48, 56, 34, 32, 119, 58>>
    \o <<102, 111, 111, 116, 101, 114, 61, 34, 55, 48, 56, 34, 32, 119, 58, 103>>
    \o <<117, 116, 116, 101, 114, 61, 34, 48, 34, 47, 62, 10, 32, 32, 32, 32>>
    \o <<60, 47, 119, 58, 115, 101, 99, 116, 80, 114, 62, 10, 32, 32, 60, 47>>
    \o <<119, 58, 98, 111, 100, 121, 62, 10, 60, 47, 119, 58, 100, 111, 99, 117>>
    \o <<109, 101, 110, 116, 62, 10>>

\* line 51: the opening of a paragraph up to its text node
PARA_PREFIX ==
    <<32, 32, 32, 32, 60, 119, 58, 112, 62, 60, 119, 58, 114, 62, 60, 119>>
    \o <<58, 116, 32, 120, 109, 108, 58, 115, 112, 97, 99, 101, 61, 34, 112, 114>>
    \o <<101, 115, 101, 114, 118, 101, 34, 62>>

\* line 52: the closing of a paragraph and a newline
PARA_SUFFIX ==
    <<60, 47, 119, 58, 116, 62, 60, 47, 119, 58, 114, 62, 60, 47, 119, 58>>
    \o <<112, 62, 10>>

\* line 53
PARA_OVERHEAD == Len(PARA_PREFIX) + Len(PARA_SUFFIX)

\* line 55: string.ascii_lowercase
ALPHA == [k \in 1..26 |-> 96 + k]

\* line 56
SPACES ==
    << <<32>>, <<32, 32>>, <<32, 32, 32>>, <<32>>, <<9>>, <<32>>,
       <<32, 32, 32, 32>> >>

\* line 67: n letters, each from one more word of the generator after the
\* one that gave n
WordOfLen(rng, n) ==
    [text |-> [j \in 1..n |-> choice(Advance(rng, j), ALPHA)],
     rng  |-> Advance(rng, 1 + n)]

\* lines 65-67: one word of 3 to 12 letters
make_word(rng) == WordOfLen(rng, randint(rng, 3, 12))

\* line 83: the choice of SPACES that follows the word w
SpaceAfter(w) ==
    [text |-> w.text \o choice(w.rng, SPACES), rng |-> Advance(w.rng, 1)]

\* lines 82-83: one word and the whitespace after it
WordAndSpace(rng) == SpaceAfter(make_word(rng))

RECURSIVE BurstWords(_, _, _)
\* lines 82-83: the word and whitespace ws are appended to burst, and the
\* loop goes on with one word less
BurstWordsNext(ws, words, burst) ==
    BurstWords(ws.rng, words - 1, burst \o ws.text)

\* lines 81-84: the words of a burst after the ones in burst, and the
\* newline that ends the burst
BurstWords(rng, words, burst) ==
    IF words = 0
    THEN [text |-> burst \o <<10>>, rng |-> rng]
    ELSE BurstWordsNext(WordAndSpace(rng), words, burst)

\* lines 79-85: one burst of 8 to 18 words
Burst(rng) == BurstWords(Advance(rng, 1), randint(rng, 8, 18), <<>>)

RECURSIVE Bursts(_, _, _)
\* lines 85-87: the burst b is appended to parts
BurstsNext(b, target_len, parts) ==
    Bursts(b.rng, target_len, parts \o b.text)

\* lines 77-88: bursts are appended to parts while total < target_len
Bursts(rng, target_len, parts) ==
    IF Len(parts) < target_len
    THEN BurstsNext(Burst(rng), target_len, parts)
    ELSE [text |-> parts, rng |-> rng]

\* make_random_text without lines 89-90: what was generated, not trimmed
make_random_text_Untrimmed(rng, target_len) == Bursts(rng, target_len, <<>>)

\* lines 89-90: the text g cut to target_len when it is longer;
\* text[:target_len] of a negative target_len drops that many last bytes
Trimmed(g, target_len) ==
    [text |-> IF Len(g.text) > target_len
              THEN SubSeq(g.text, 1,
                          IF target_len >= 0 THEN target_len
                          ELSE Max(0, Len(g.text) + target_len))
              ELSE g.text,
     rng  |-> g.rng]

\* lines 69-91: the generated text, trimmed
make_random_text(rng, target_len) ==
    Trimmed(Bursts(rng, target_len, <<>>), target_len)

\* a paragraph that is not closed: the text after the opening tags only
Wrapped_Unclosed(t) == [bytes |-> PARA_PREFIX \o t.text, rng |-> t.rng]

\* lines 103-105 and 110-112: the text t between the paragraph's tags
Wrapped(t) ==
    [bytes |-> PARA_PREFIX \o t.text \o PARA_SUFFIX, rng |-> t.rng]

\* lines 103-105 and 110-112: one paragraph around n_text bytes of text
Paragraph(rng, n_text) == Wrapped(make_random_text(rng, n_text))

\* the chunk c and the paragraph p, which was asked to hold n_text bytes
WithParagraph(c, p, n_text) ==
    [paragraphs |-> Append(c.paragraphs, p.bytes),
     requested  |-> Append(c.requested, n_text),
     size       |-> c.size + Len(p.bytes),
     rng        |-> p.rng]

RECURSIVE FullParagraphs(_, _, _)
\* lines 103-105: one more full paragraph
FullParagraphsNext(c, target_bytes, para_text_bytes) ==
    FullParagraphs(
        WithParagraph(c, Paragraph(c.rng, para_text_bytes), para_text_bytes),
        target_bytes, para_text_bytes)

\* lines 102-105: full paragraphs while one more still fits; c is the chunk
\* so far: its paragraphs, the text length each was asked for, its size
\* len(chunk), and the generator
FullParagraphs(c, target_bytes, para_text_bytes) ==
    IF c.size + PARA_OVERHEAD + para_text_bytes <= target_bytes
    THEN FullParagraphsNext(c, target_bytes, para_text_bytes)
    ELSE c

\* build_paragraph_chunk without lines 107-112
LastParagraph_Dropped(c, target_bytes) == c

\* lines 107-112: one last paragraph when more than PARA_OVERHEAD + 8 bytes
\* are left
LastParagraph(c, target_bytes) ==
    IF target_bytes - c.size > PARA_OVERHEAD + 8
    THEN WithParagraph(
            c, Paragraph(c.rng, target_bytes - c.size - PARA_OVERHEAD),
            target_bytes - c.size - PARA_OVERHEAD)
    ELSE c

\* the bytes of a sequence of byte strings, one after the other
RECURSIVE Concat(_)
Concat(ss) == IF ss = <<>> THEN <<>> ELSE Head(ss) \o Concat(Tail(ss))

\* line 113: the chunk is its paragraphs one after the other
ChunkOf(c) ==
    [chunk |-> Concat(c.paragraphs), paragraphs |-> c.paragraphs,
     requested |-> c.requested, rng |-> c.rng]

\* lines 93-113: the paragraphs of a chunk, the text length each was asked
\* for, the chunk they make, and the generator afterwards
build_paragraph_chunk(rng, target_bytes, para_text_bytes) ==
    ChunkOf(
        LastParagraph(
            FullParagraphs(
                [paragraphs |-> <<>>, requested |-> <<>>, size |-> 0,
                 rng |-> rng],
                target_bytes,
                IF para_text_bytes < 32 THEN 32 ELSE para_text_bytes),
            target_bytes))

-----------------------------------------------------------------------------
(* create_big_docx_only_text.py: make_text_only_docx_random and             *)
(* write_document_xml_stream                                                 *)

\* the arguments of the modelled runs: targets around the size of the fixed
\* parts plus head and tail, margins of either sign, chunk sizes on both
\* sides of PARA_OVERHEAD + 16
TxTargets == {0, 1250, 1304, 1329, 1379, 1380, 1395, 1400, 1480, 1600, 1800}

TxMargins == {-60, 0, 25}

TxChunkBytes == {60, 75, 76, 130, 400}

TxParaBytes == {0, 32, 70}

TxSeeds == {1, 2}

\* lines 158-163: the call
TxCall(target_bytes, margin_bytes, chunk_bytes, para_text_bytes, seed) ==
    [TxIdle EXCEPT !.pc = "call",
                   !.target_bytes = target_bytes,
                   !.margin_bytes = margin_bytes,
                   !.chunk_bytes = chunk_bytes,
                   !.para_text_bytes = para_text_bytes,
                   !.seed = seed]

TxInit ==
    \E t \in TxTargets, m \in TxMargins, c \in TxChunkBytes,
       p \in TxParaBytes, s \in TxSeeds :
        tx = TxCall(t, m, c, p, s)

\* lines 170-178: the effective target, the size of the fixed parts, and the
\* two fixed parts written to the new archive
TxOpenZip ==
    /\ tx.pc = "call"
    /\ tx' = [tx EXCEPT
                !.pc = "stream",
                !.effective_target =
                    Max(1, tx.target_bytes - Max(0, tx.margin_bytes)),
                !.other_parts_bytes = TextLenContentTypes + TextLenRelsRoot,
                !.zip = <<"[Content_Types].xml", "_rels/.rels">>]
    /\ UNCHANGED NotText

\* lines 125-138: the generator, the budget of word/document.xml, the head,
\* and the room that is left for paragraphs
TxHead ==
    /\ tx.pc = "stream"
    /\ LET budget_docxml == Max(0, tx.effective_target - tx.other_parts_bytes)
       IN  tx' = [tx EXCEPT
                    !.pc = "loop",
                    !.rng = Random(tx.seed),
                    !.budget_docxml = budget_docxml,
                    !.stream = <<DOC_HEAD>>,
                    !.written = Len(DOC_HEAD),
                    !.remaining =
                        Max(0, budget_docxml - Len(DOC_HEAD) - Len(DOC_TAIL))]
    /\ UNCHANGED NotText

\* the loop with a break at PARA_OVERHEAD + 100
TxLoopCond_EarlyBreak(s) ==
    /\ s.remaining > 0
    /\ ~ (Min(s.chunk_bytes, s.remaining) <= PARA_OVERHEAD + 100)

\* lines 143-145: the loop goes on while room is left and the next chunk is
\* larger than PARA_OVERHEAD + 16
TxLoopCond(s) ==
    /\ s.remaining > 0
    /\ ~ (Min(s.chunk_bytes, s.remaining) <= PARA_OVERHEAD + 16)

\* lines 148-150: the chunk c is written
TxAfterChunk(s, c) ==
    [s EXCEPT !.rng = c.rng,
              !.stream = Append(@, c.chunk),
              !.chunks = @ + 1,
              !.written = @ + Len(c.chunk),
              !.remaining = @ - Len(c.chunk)]

\* lines 143-150: one chunk is built and written
TxChunk ==
    /\ tx.pc = "loop"
    /\ TxLoopCond(tx)
    /\ tx' = TxAfterChunk(tx,
                build_paragraph_chunk(tx.rng, Min(tx.chunk_bytes, tx.remaining),
                                      tx.para_text_bytes))
    /\ UNCHANGED NotText

\* lines 152-155 and 178-180: the tail, the end of the entry and of the
\* archive
TxTail ==
    /\ tx.pc = "loop"
    /\ ~ TxLoopCond(tx)
    /\ tx' = [tx EXCEPT
                !.pc = "closed",
                !.stream = Append(@, DOC_TAIL),
                !.written = @ + Len(DOC_TAIL),
                !.zip = Append(@, "word/document.xml")]
    /\ UNCHANGED NotText

TextInit ==
    /\ DocxIdle
    /\ PngIdle
    /\ sy = SyIdle
    /\ LaterIdle
    /\ TxInit

TextNext == TxOpenZip \/ TxHead \/ TxChunk \/ TxTail

SpecText == TextInit /\ [][TextNext]_vars

-----------------------------------------------------------------------------
(* The seeded synthesizers, called twice *)

\* make_docx_all_visible_stdlib.py lines 13-26: the image with its random
\* samples; every row is a filter byte 0 and 3 * width_px samples, drawn in
\* row order from a generator of its own
build_png_bytes(width_px, height_px, seed) ==
    LET rng     == Random(seed)
        row_len == 1 + 3 * width_px
        raw     == [k \in 1..(row_len * height_px) |->
                      LET y == (k - 1) \div row_len
                          c == (k - 1) % row_len
                      IN  IF c = 0 THEN 0
                          ELSE randrange(
                                  Advance(rng, y * 3 * width_px + c - 1), 256)]
    IN  PNG_SIG \o chunk(TypIHDR, IhdrData(width_px, height_px))
                \o chunk(TypIDAT, zlib_compress0(raw))
                \o chunk(TypIEND, <<>>)

\* struct.pack("<I", n), and "<i" of a non-negative n
U32LE(n) ==
    <<n % 256, (n \div 256) % 256, (n \div 65536) % 256,
      (n \div 16777216) % 256>>

\* struct.pack("<H", n)
U16LE(n) == <<n % 256, (n \div 256) % 256>>

\* make_bmp without line 12: the module-level generator as it was left
BmpSeed_Unseeded(global, seed) == global

\* create_many_bmps.py line 12: random.seed(seed) restarts the module-level
\* generator, whatever state it was in
BmpSeed(global, seed) == Random(seed)

\* create_many_bmps.py lines 10-57: the two headers and the pixel rows, each
\* padded to a multiple of 4 bytes; the samples come from the module-level
\* generator, which the call leaves advanced
make_bmp(global, width, height, seed) ==
    LET rng             == BmpSeed(global, seed)
        row_bytes       == ((width * 3 + 3) \div 4) * 4
        pixel_data_size == row_bytes * height
        file_size       == 54 + pixel_data_size
        header ==
            <<66, 77>> \o U32LE(file_size) \o <<0, 0, 0, 0>> \o U32LE(54)
              \o U32LE(40) \o U32LE(width) \o U32LE(height) \o U16LE(1)
              \o U16LE(24) \o U32LE(0) \o U32LE(pixel_data_size)
              \o U32LE(2835) \o U32LE(2835) \o U32LE(0) \o U32LE(0)
        pixels == [k \in 1..pixel_data_size |->
                      LET y == (k - 1) \div row_bytes
                          c == (k - 1) % row_bytes
                      IN  IF c < width * 3
                          THEN randrange(
                                  Advance(rng, y * 3 * width + c), 256)
                          ELSE 0]
    IN  [bytes |-> header \o pixels,
         global |-> Advance(rng, 3 * width * height)]

\* largest target_len of a modelled make_random_text call, next to the
\* lengths of SyLongTexts
MaxTextLen == 8

\* lengths beyond one burst (a burst has 33 to 289 bytes)
SyLongTexts == {40, 300}

SyTextLens == (0..MaxTextLen) \cup SyLongTexts

SyDims == {0, 1, 2}

SySeeds == {-3, 3, 4}

\* how many words the generator handed to make_random_text has produced
SySkips == {0, 5}

SyChunkTargets == {60, 70, 76, 100, 200, 250}

SyParaBytes == {0, 40}

\* the module-level generator of a fresh interpreter is seeded by the system
SyGlobals == {Random(0), Advance(Random(11), 3)}

SyInit ==
    \E g \in SyGlobals : sy = [SyIdle EXCEPT !.pc = "start", !.global = g]

\* a call and its result
SyCallRecord(fn, args, out, paragraphs, requested) ==
    [fn |-> fn, args |-> args, out |-> out, paragraphs |-> paragraphs,
     requested |-> requested]

\* the run after one more call: the first and then the second call are kept
SyRecorded(c, global) ==
    IF sy.pc = "start"
    THEN [sy EXCEPT !.pc = "one", !.first = c, !.global = global]
    ELSE [sy EXCEPT !.pc = "two", !.second = c, !.global = global]

\* a call of build_png_bytes
SyBuildPng ==
    /\ sy.pc \in {"start", "one"}
    /\ \E w \in SyDims \ {0}, h \in SyDims \ {0}, seed \in SySeeds :
        sy' = SyRecorded(
                SyCallRecord("build_png_bytes", <<w, h, seed>>,
                             build_png_bytes(w, h, seed), <<>>, <<>>),
                sy.global)
    /\ UNCHANGED NotSynth

\* a call of make_bmp and its result r
SyBmpRecorded(args, r) ==
    SyRecorded(SyCallRecord("make_bmp", args, r.bytes, <<>>, <<>>), r.global)

\* a call of make_bmp
SyMakeBmp ==
    /\ sy.pc \in {"start", "one"}
    /\ \E w \in SyDims, h \in SyDims, seed \in SySeeds :
        sy' = SyBmpRecorded(<<w, h, seed>>, make_bmp(sy.global, w, h, seed))
    /\ UNCHANGED NotSynth

\* a call of make_random_text with a generator made by random.Random(seed)
\* that has produced skip words
SyRandomText ==
    /\ sy.pc \in {"start", "one"}
    /\ \E seed \in SySeeds \ {4}, skip \in SySkips, target_len \in SyTextLens :
        sy' = SyRecorded(
                SyCallRecord("make_random_text", <<seed, skip, target_len>>,
                    make_random_text(Advance(Random(seed), skip),
                                     target_len).text,
                    <<>>, <<>>),
                sy.global)
    /\ UNCHANGED NotSynth

\* a call of build_paragraph_chunk and its result c
SyChunkRecord(args, c) ==
    SyCallRecord("build_paragraph_chunk", args, c.chunk, c.paragraphs,
                 c.requested)

\* a call of build_paragraph_chunk with a generator made by
\* random.Random(seed)
SyParagraphChunk ==
    /\ sy.pc \in {"start", "one"}
    /\ \E seed \in SySeeds \ {4}, target_bytes \in SyChunkTargets,
          para_text_bytes \in SyParaBytes :
        sy' = SyRecorded(
                SyChunkRecord(
                    <<seed, target_bytes, para_text_bytes>>,
                    build_paragraph_chunk(Random(seed), target_bytes,
                                          para_text_bytes)),
                sy.global)
    /\ UNCHANGED NotSynth

\* between the two calls, a make_bmp call whose result is not kept (the loop
\* of create_many_bmps.py main, lines 96-98, goes on to the next seed)
SyBetween ==
    /\ sy.pc = "one"
    /\ ~ sy.between
    /\ \E seed \in SySeeds :
        sy' = [sy EXCEPT !.between = TRUE,
                         !.global = make_bmp(sy.global, 1, 1, seed).global]
    /\ UNCHANGED NotSynth

SynthInit ==
    /\ DocxIdle
    /\ PngIdle
    /\ tx = TxIdle
    /\ LaterIdle
    /\ SyInit

SynthNext ==
    SyBuildPng \/ SyMakeBmp \/ SyRandomText \/ SyParagraphChunk \/ SyBetween

SpecSynth == SynthInit /\ [][SynthNext]_vars

-----------------------------------------------------------------------------
(* Properties of the text DOCX *)

\* the bytes written to word/document.xml: head, chunks and tail
TxDocumentBytes == Len(Concat(tx.stream))

\* the budget of word/document.xml
TxBudget == tx.effective_target - tx.other_parts_bytes

\* the document is within the budget, hence within the target, and short of
\* the budget by at most PARA_OVERHEAD + 16
TxWithinMargin ==
    /\ TxDocumentBytes = tx.written
    /\ TxDocumentBytes <= TxBudget
    /\ TxDocumentBytes <= tx.target_bytes
    /\ TxBudget - TxDocumentBytes <= PARA_OVERHEAD + 16

-----------------------------------------------------------------------------
(* Properties of the synthesizers *)

SyCalls == {sy.first, sy.second}

\* C6: make_random_text returns ASCII bytes of exactly target_len bytes,
\* whatever the generator's state and for every target_len >= 0, and every
\* paragraph of a chunk of build_paragraph_chunk has exactly PARA_OVERHEAD
\* plus the requested text length bytes.
C6_TextExactLength ==
    \A c \in SyCalls :
        /\ c.fn = "make_random_text" =>
              /\ Len(c.out) = c.args[3]
              /\ \A k \in 1..Len(c.out) : c.out[k] < 128
        /\ c.fn = "build_paragraph_chunk" =>
              /\ Len(c.paragraphs) = Len(c.requested)
              /\ \A k \in 1..Len(c.paragraphs) :
                    Len(c.paragraphs[k]) = PARA_OVERHEAD + c.requested[k]
              /\ Len(c.out) = SeqSum(c.requested)
                                + PARA_OVERHEAD * Len(c.requested)

\* a chunk of several paragraphs, and a text of more than one burst
C6_Witness ==
    /\ sy.first.fn = "build_paragraph_chunk"
    /\ Len(sy.first.requested) >= 3
    /\ sy.second.fn = "make_random_text"
    /\ sy.second.args[3] = 300
    /\ Len(sy.second.out) = 300

\* C8: two calls of the same synthesizer with the same parameters and the
\* same seed return the same bytes, for build_png_bytes, make_random_text,
\* build_paragraph_chunk and make_bmp, whatever was called in between.
C8_SeededDeterminism ==
    (/\ sy.pc = "two"
     /\ sy.first.fn = sy.second.fn
     /\ sy.first.args = sy.second.args)
    => sy.first.out = sy.second.out

\* make_bmp was called twice with the same arguments, another make_bmp call
\* with another seed came in between, and the image has pixels
C8_Witness ==
    /\ sy.pc = "two"
    /\ sy.between
    /\ sy.first.fn = "make_bmp"
    /\ sy.second.fn = "make_bmp"
    /\ sy.first.args = sy.second.args
    /\ sy.first.args[1] = 2
    /\ sy.first.args[2] = 2
    /\ sy.first.out = sy.second.out

-----------------------------------------------------------------------------
(* The generators that write files, one run of one of them *)

GeneratorsInit == DocxInit \/ PngSetInit \/ TextInit

GeneratorsNext == DocxNext \/ PngSetNext \/ TextNext

SpecGenerators == GeneratorsInit /\ [][GeneratorsNext]_vars

-----------------------------------------------------------------------------
(* Properties of the parts of the image DOCX *)

\* the entries of the archive that have the name n
DvEntries(n) == {k \in 1..Len(dv.zip) : dv.zip[k].name = n}

\* the relationships written to word/_rels/document.xml.rels
DvRels ==
    LET e == DvEntries("word/_rels/document.xml.rels")
    IN  IF e = {} THEN <<>> ELSE dv.zip[CHOOSE k \in e : TRUE].refs

\* the embed ids written to word/document.xml
DvEmbeds ==
    LET e == DvEntries("word/document.xml")
    IN  IF e = {} THEN <<>> ELSE dv.zip[CHOOSE k \in e : TRUE].refs

\* a relationship target is relative to the folder of word/document.xml
DvResolved(target) == "word/" \o target

\* image indices of 5, 6 and 7 digits
LongImageIndices == {99999, 100000, 1234567}

\* C12: in the finished DOCX, for each i in 1..num_images there is exactly
\* one embed id rIdImg{i} in the document, exactly one relationship with
\* that id, whose target is media/image{i:05d}.png, and exactly one entry
\* word/media/image{i:05d}.png; every embed id has a relationship, every
\* relationship target is an entry that was written, and every media entry
\* is the target of a relationship.  Ids and names of distinct indices
\* differ, also beyond five digits.
C12_ReferenceIntegrity ==
    (dv.pc = "done") =>
        /\ \A i \in 1..dv.num_images :
              /\ Cardinality({k \in 1..Len(DvEmbeds) :
                                DvEmbeds[k] = "rIdImg" \o Str(i)}) = 1
              /\ Cardinality({k \in 1..Len(DvRels) :
                                DvRels[k].Id = "rIdImg" \o Str(i)}) = 1
              /\ \A k \in 1..Len(DvRels) :
                    DvRels[k].Id = "rIdImg" \o Str(i) =>
                        DvRels[k].Target = "media/image" \o Fmt05d(i) \o ".png"
              /\ Cardinality(
                    DvEntries("word/media/image" \o Fmt05d(i) \o ".png")) = 1
        /\ \A k \in 1..Len(DvEmbeds) :
              \E r \in 1..Len(DvRels) : DvRels[r].Id = DvEmbeds[k]
        /\ \A r \in 1..Len(DvRels) :
              Cardinality(DvEntries(DvResolved(DvRels[r].Target))) = 1
        /\ \A k \in DvMedia :
              \E r \in 1..Len(DvRels) :
                  DvResolved(DvRels[r].Target) = dv.zip[k].name
        /\ \A a \in LongImageIndices, b \in LongImageIndices \cup (1..MaxImages) :
              a # b =>
                 /\ MediaName(a) # MediaName(b)
                 /\ DocRel(a).Id # DocRel(b).Id
                 /\ DocEmbed(a) # DocEmbed(b)
                 /\ DocEmbed(a) = DocRel(a).Id
                 /\ DvResolved(DocRel(a).Target) = MediaName(a)

\* a DOCX of three images was finished
C12_Witness ==
    /\ dv.pc = "done"
    /\ dv.num_images = 3
    /\ Cardinality(DvMedia) = 3
    /\ Len(DvRels) = 3
    /\ Len(DvEmbeds) = 3

-----------------------------------------------------------------------------
(* Properties of the order of the parts *)

\* the fixed parts of the image DOCX and of the text DOCX
DvManifestNames ==
    {"[Content_Types].xml", "_rels/.rels", "word/_rels/document.xml.rels",
     "word/document.xml"}

TxManifestNames == {"[Content_Types].xml", "_rels/.rels"}

\* the entries of the text DOCX that have the name n
TxEntries(n) == {k \in 1..Len(tx.zip) : tx.zip[k] = n}

\* C13: in the image DOCX each of the four fixed parts is written at most
\* once, and exactly once and before every media part as soon as a media
\* part is written or the archive is closed; in the text DOCX
\* [Content_Types].xml and _rels/.rels are written at most once, and exactly
\* once as soon as the head of the streamed document is written, and they
\* come before the entry of the streamed document.
C13_ManifestFirst ==
    /\ \A n \in DvManifestNames :
          /\ Cardinality(DvEntries(n)) <= 1
          /\ (DvMedia # {} \/ dv.pc = "done") =>
                /\ Cardinality(DvEntries(n)) = 1
                /\ \A j \in DvEntries(n), k \in DvMedia : j < k
    /\ \A n \in TxManifestNames :
          /\ Cardinality(TxEntries(n)) <= 1
          /\ (tx.stream # <<>> \/ tx.pc = "closed") =>
                /\ Cardinality(TxEntries(n)) = 1
                /\ \A j \in TxEntries(n), k \in TxEntries("word/document.xml") :
                      j < k

\* a text DOCX of several chunks was closed
C13_Witness ==
    /\ tx.pc = "closed"
    /\ tx.chunks >= 2
    /\ Len(tx.zip) = 3
    /\ TxEntries("word/document.xml") = {3}

-----------------------------------------------------------------------------
(* Natural numbers beyond 32 bits, and Python floats.  A natural number is   *)
(* the sequence of its digits to the base 1024, lowest first and without    *)
(* leading zeros; a float is m * 2^e with m odd and below 2^53, or m zero.  *)

RECURSIVE Big(_)
\* the natural number n
Big(n) == IF n = 0 THEN <<>> ELSE <<n % 1024>> \o Big(n \div 1024)

RECURSIVE BigMulSmall(_, _, _)
\* a * c + carry, for c up to 5^9
BigMulSmall(a, c, carry) ==
    IF a = <<>> THEN Big(carry)
    ELSE <<(a[1] * c + carry) % 1024>>
           \o BigMulSmall(Tail(a), c, (a[1] * c + carry) \div 1024)

RECURSIVE BigNorm(_)
\* a without leading zeros
BigNorm(a) ==
    IF a # <<>> /\ a[Len(a)] = 0 THEN BigNorm(SubSeq(a, 1, Len(a) - 1)) ELSE a

RECURSIVE BigDivRec(_, _, _, _, _)
\* long division of the digits i down to 1 of a by d, for d up to 5^9
BigDivRec(a, d, i, rem, q) ==
    IF i = 0 THEN [q |-> BigNorm(q), r |-> rem]
    ELSE BigDivRec(a, d, i - 1, (rem * 1024 + a[i]) % d,
                   <<(rem * 1024 + a[i]) \div d>> \o q)

\* quotient q and remainder r of a by d
BigDivSmall(a, d) == BigDivRec(a, d, Len(a), 0, <<>>)

RECURSIVE BitLen(_)
\* the number of binary digits of n
BitLen(n) == IF n = 0 THEN 0 ELSE 1 + BitLen(n \div 2)

\* the number of binary digits of a
BigBitLen(a) ==
    IF a = <<>> THEN 0 ELSE 10 * (Len(a) - 1) + BitLen(a[Len(a)])

\* a * 2^s
BigShl(a, s) ==
    IF a = <<>> THEN <<>>
    ELSE [k \in 1..(s \div 10) |-> 0] \o BigMulSmall(a, 2^(s % 10), 0)

\* a without its s \div 10 lowest digits, and whether one of them is not 0
BigDropDigits(a, s) ==
    [q |-> SubSeq(a, (s \div 10) + 1, Len(a)),
     sticky |-> \E k \in 1..Min(s \div 10, Len(a)) : a[k] # 0]

\* the quotient of d, and whether anything was cut off
BigShrSticky(dropped, d) ==
    [q |-> d.q, sticky |-> dropped.sticky \/ d.r # 0]

\* floor(a / 2^s), and whether the division left a remainder
BigShr(a, s) ==
    BigShrSticky(BigDropDigits(a, s),
                 BigDivSmall(BigDropDigits(a, s).q, 2^(s % 10)))

RECURSIVE TrailingZeros(_)
\* the number of zero binary digits at the low end of n > 0
TrailingZeros(n) == IF n % 2 = 1 THEN 0 ELSE 1 + TrailingZeros(n \div 2)

\* the number of zero binary digits at the low end of a > 0
BigTrailingZeros(a) ==
    LET j == CHOOSE j \in 1..Len(a) : a[j] # 0 /\ \A i \in 1..(j - 1) : a[i] = 0
    IN  10 * (j - 1) + TrailingZeros(a[j])

\* the float m * 2^e for m below 2^53
Float(m, e) ==
    IF m = <<>> THEN [m |-> <<>>, e |-> 0]
    ELSE [m |-> BigShr(m, BigTrailingZeros(m)).q, e |-> e + BigTrailingZeros(m)]

\* the float nearest to (2 * d.q + d.r + a part below) * 2^(e - 1), ties to
\* the even float
FlPick(d, sticky, e) ==
    Float(IF d.r = 1 /\ (sticky \/ d.q[1] % 2 = 1)
          THEN BigMulSmall(d.q, 1, 1) ELSE d.q,
          e)

\* the 54 leading binary digits s1.q of a number, rounded to 53
FlRoundAt(s1, rnz, e) == FlPick(BigDivSmall(s1.q, 2), s1.sticky \/ rnz, e)

\* the float nearest to Q * 2^e0, or a little above it when rnz, for Q of
\* more than 54 binary digits
FlRound(Q, rnz, e0) ==
    FlRoundAt(BigShr(Q, BigBitLen(Q) - 54), rnz, e0 + BigBitLen(Q) - 53)

\* the float nearest to the quotient D of a division, times 2^e0
FlQuotRound(D, e0) == FlRound(D.q, D.r # 0, e0)

\* the float nearest to N / (d * 2^s): the correctly rounded result of a
\* float multiplication or of the true division of two ints
FlQuot(N, d, s) ==
    IF N = <<>> THEN Float(<<>>, 0)
    ELSE FlQuotRound(BigDivSmall(BigShl(N, 80), d), (-80) - s)

\* float * factor, for the factor f.odd * 2^f.pow
FloatTimes(v, f) == FlQuot(BigMulSmall(v.m, f.odd, 0), 1, -(v.e + f.pow))

\* int(x) of a float x >= 0
FloatToInt(x) ==
    IF x.e >= 0 THEN BigShl(x.m, x.e) ELSE BigShr(x.m, -x.e).q

\* n / factor, for an int n >= 0
IntOverInt(n, f) == FlQuot(n, f.odd, f.pow)

-----------------------------------------------------------------------------
(* Sizes with a unit.  Every script turns --target-size and --unit into a   *)
(* byte count with float arithmetic; two of them turn a byte count back     *)
(* into a size for the summary line.                                        *)

\* 1024 ** 3
GiB_FACTOR == [odd |-> 1, pow |-> 30]

\* 1_000_000_000 = 5^9 * 2^9
GB_FACTOR == [odd |-> 1953125, pow |-> 9]

\* 1_000_000 = 5^6 * 2^6
MB_FACTOR == [odd |-> 15625, pow |-> 6]

\* 1024 ** 2
MiB_FACTOR == [odd |-> 1, pow |-> 20]

\* 1024
KiB_FACTOR == [odd |-> 1, pow |-> 10]

\* 1
B_FACTOR == [odd |-> 1, pow |-> 0]

\* unit.lower()
Lower(unit) ==
    CASE unit = "GB" -> "gb" [] unit = "GiB" -> "gib" [] unit = "MB" -> "mb"
      [] unit = "MiB" -> "mib" [] unit = "KB" -> "kb" [] unit = "B" -> "b"

\* unit.upper()
Upper(unit) ==
    CASE unit = "GB" -> "GB" [] unit = "GiB" -> "GIB" [] unit = "MB" -> "MB"
      [] unit = "MiB" -> "MIB" [] unit = "KB" -> "KB" [] unit = "B" -> "B"

\* the factor of to_bytes and from_bytes of make_docx_all_visible_stdlib.py
\* and of make_target_sized_docx.py
ImageDocxFactor(unit) ==
    IF Lower(unit) = "gib" THEN GiB_FACTOR ELSE GB_FACTOR

\* the factor of to_bytes of make_png_set.py and create_big_docx_only_text.py
PngSetFactor(unit) ==
    IF Lower(unit) = "gib" THEN GiB_FACTOR
    ELSE IF Lower(unit) = "mb" THEN MB_FACTOR
    ELSE GB_FACTOR

\* the factor of to_bytes of create_many_bmps.py; any other unit is bytes
BmpsFactor(unit) ==
    IF Lower(unit) = "gib" THEN GiB_FACTOR
    ELSE IF Lower(unit) = "gb" THEN GB_FACTOR
    ELSE IF Lower(unit) = "mb" THEN MB_FACTOR
    ELSE IF Lower(unit) = "mib" THEN MiB_FACTOR
    ELSE B_FACTOR

\* units.get(unit.upper(), units['GB']) of create_big_text_file
TextFileFactor(unit) ==
    IF Upper(unit) = "B" THEN B_FACTOR
    ELSE IF Upper(unit) = "KB" THEN KiB_FACTOR
    ELSE IF Upper(unit) = "MB" THEN MiB_FACTOR
    ELSE GiB_FACTOR

UnScripts == {"make_docx_all_visible_stdlib", "make_target_sized_docx",
              "make_png_set", "create_big_docx_only_text",
              "create_many_bmps", "create_big_text_file"}

\* the scripts that have a from_bytes
UnPrinting == {"make_docx_all_visible_stdlib", "make_target_sized_docx"}

\* choices of the --unit argument
UnitChoices(script) ==
    CASE script \in UnPrinting -> {"GB", "GiB"}
      [] script \in {"make_png_set", "create_big_docx_only_text"} ->
            {"GB", "GiB", "MB"}
      [] script = "create_many_bmps" -> {"B", "MB", "MiB", "GB", "GiB"}
      [] script = "create_big_text_file" -> {"B", "KB", "MB", "GB"}

UnitFactor(script, unit) ==
    CASE script \in UnPrinting -> ImageDocxFactor(unit)
      [] script \in {"make_png_set", "create_big_docx_only_text"} ->
            PngSetFactor(unit)
      [] script = "create_many_bmps" -> BmpsFactor(unit)
      [] script = "create_big_text_file" -> TextFileFactor(unit)

\* int(value * factor)
to_bytes(script, value, unit) ==
    FloatToInt(FloatTimes(value, UnitFactor(script, unit)))

\* n // factor as a float, where the code has n / factor
from_bytes_Floored(script, n, unit) ==
    Float(BigShr(BigDivSmall(n, UnitFactor(script, unit).odd).q,
                 UnitFactor(script, unit).pow).q, 0)

\* n / factor
from_bytes(script, n, unit) == IntOverInt(n, UnitFactor(script, unit))

\* largest of the small mantissas of a modelled size
MaxMantissa == 12

\* 1001, 5065224547000000 / 2^9 and 2^53 - 1
UnLongMantissas ==
    {<<1001>>, <<355, 588, 734, 4>>, <<1023, 1023, 1023, 1023, 1023, 7>>}

\* sizes m * 2^e: 0 .. 12, halves, 1001/1024, 2^-34, 9893016.693359375, ...
UnValues ==
    {Float(m, e) : m \in {Big(k) : k \in 0..MaxMantissa} \cup UnLongMantissas,
                   e \in {-34, -10, -9, -1, 0}}

\* 4611686018 and 4611686019
UnLongMultiples == {<<642, 47, 302, 4>>, <<643, 47, 302, 4>>}

\* how many units a modelled byte count holds
UnMultiples == {Big(k) : k \in 0..3} \cup UnLongMultiples

\* m whole units in bytes
UnCount(m, f) == BigShl(BigMulSmall(m, f.odd, 0), f.pow)

\* either a size to convert, or a byte count to print
UnInit ==
    \/ \E script \in UnScripts : \E unit \in UnitChoices(script) :
       \E value \in UnValues :
          un = [pc |-> "start", script |-> script, unit |-> unit,
                value |-> value, bytes |-> <<>>, back |-> Float(<<>>, 0)]
    \/ \E script \in UnPrinting : \E unit \in UnitChoices(script) :
       \E m \in UnMultiples :
          un = [pc |-> "count", script |-> script, unit |-> unit,
                value |-> Float(<<>>, 0),
                bytes |-> UnCount(m, UnitFactor(script, unit)),
                back |-> Float(<<>>, 0)]

\* target_bytes = to_bytes(args.target_size, args.unit)
UnToBytes ==
    /\ un.pc = "start"
    /\ un' = [un EXCEPT !.pc = "converted",
                        !.bytes = to_bytes(un.script, un.value, un.unit)]
    /\ UNCHANGED NotUnits

\* from_bytes(n, args.unit) of the summary line
UnFromBytes ==
    /\ un.pc = "converted"
    /\ un.script \in UnPrinting
    /\ un' = [un EXCEPT !.pc = "printed",
                        !.back = from_bytes(un.script, un.bytes, un.unit)]
    /\ UNCHANGED NotUnits

\* from_bytes of a byte count
UnFromCount ==
    /\ un.pc = "count"
    /\ un' = [un EXCEPT !.pc = "valued",
                        !.value = from_bytes(un.script, un.bytes, un.unit)]
    /\ UNCHANGED NotUnits

\* to_bytes of the size that from_bytes gave
UnToBytesAgain ==
    /\ un.pc = "valued"
    /\ un' = [un EXCEPT !.pc = "again",
                        !.back = Float(to_bytes(un.script, un.value, un.unit), 0)]
    /\ UNCHANGED NotUnits

UnitsInit ==
    /\ DocxIdle
    /\ LastIdle
    /\ PngIdle
    /\ tx = TxIdle
    /\ sy = SyIdle
    /\ bm = BmIdle
    /\ pw = PwIdle
    /\ nz = NzIdle
    /\ UnInit

UnitsNext == UnToBytes \/ UnFromBytes \/ UnFromCount \/ UnToBytesAgain

SpecUnits == UnitsInit /\ [][UnitsNext]_vars

-----------------------------------------------------------------------------
(* Properties of the unit conversions *)

\* the size of the run times a factor is a whole number of bytes
UnIntegral(f) == un.value.m = <<>> \/ un.value.e + f.pow >= 0

\* C14: in every script that takes a unit, "GB" is 10^9 bytes, "GiB" is 2^30
\* bytes and "MB" is 10^6 bytes, and a size above 0 has different byte
\* counts as GB and as GiB
C14_AsStated ==
    un.pc \in {"converted", "printed"} =>
        /\ un.unit = "GB" =>
              un.bytes = FloatToInt(FloatTimes(un.value, GB_FACTOR))
        /\ un.unit = "GiB" =>
              un.bytes = FloatToInt(FloatTimes(un.value, GiB_FACTOR))
        /\ un.unit = "MB" =>
              un.bytes = FloatToInt(FloatTimes(un.value, MB_FACTOR))
        /\ (un.value.m # <<>> /\ {"GB", "GiB"} \subseteq UnitChoices(un.script))
              => to_bytes(un.script, un.value, "GB")
                    # to_bytes(un.script, un.value, "GiB")

\* C15: below 2^53 bytes, a size of GB or GiB with a whole byte count comes
\* back from from_bytes(to_bytes(v, u), u), and a byte count of whole units
\* comes back from to_bytes(from_bytes(n, u), u)
C15_RoundTripBelow2To53 ==
    /\ (/\ un.pc = "printed"
        /\ UnIntegral(UnitFactor(un.script, un.unit))
        /\ BigBitLen(un.bytes) <= 53) => un.back = un.value
    /\ (un.pc = "again" /\ BigBitLen(un.bytes) <= 53)
          => FloatToInt(un.back) = un.bytes

\* C15 as stated, for every size and every byte count
C15_AsStated ==
    /\ (un.pc = "printed" /\ UnIntegral(UnitFactor(un.script, un.unit)))
          => un.back = un.value
    /\ un.pc = "again" => FloatToInt(un.back) = un.bytes

\* 1.5 GB went to 1500000000 bytes and came back as 1.5
C15_Witness ==
    /\ un.pc = "printed"
    /\ un.unit = "GB"
    /\ un.value = Float(<<3>>, -1)
    /\ un.bytes = <<768, 523, 406, 1>>
    /\ un.back = un.value

-----------------------------------------------------------------------------
(* main of create_many_bmps.py: the directory, the size of one image, and   *)
(* count square images of that size                                         *)

RECURSIVE BigValue(_)
\* the int of a byte count that fits 32 bits
BigValue(a) == IF a = <<>> THEN 0 ELSE a[1] + 1024 * BigValue(Tail(a))

\* int(n ** 0.5); the float square root is exact to the integer below for
\* the sizes of the model
IntSqrt(n) == CHOOSE s \in 0..n : s * s <= n /\ (s + 1) * (s + 1) > n

\* largest --count of a modelled run
MaxBmps == 2

\* --target-size and --unit: 0 to 2000 bytes, 1/1024 MB and 1/4096 MiB
BmSizes ==
    {<<Float(Big(k), 0), "B">> : k \in {0, 10, 57, 58, 66, 120, 1000, 2000}}
      \cup {<<Float(<<1>>, -10), "MB">>, <<Float(<<1>>, -12), "MiB">>}

BmArgs ==
    [count : 0..MaxBmps, size : BmSizes, unique_lines : {0, 10}]

\* lines 76-82: the arguments are parsed
BmInit ==
    \E a \in BmArgs : \E g \in {Random(0), Advance(Random(7), 2)} :
        bm = [BmIdle EXCEPT !.pc = "start", !.args = a, !.global = g]

\* line 84: os.makedirs(args.out_dir, exist_ok=True)
BmMakedirs ==
    /\ bm.pc = "start"
    /\ bm' = [bm EXCEPT !.pc = "made", !.fs = {"out_dir"}]
    /\ UNCHANGED NotBmps

\* lines 85-91: the byte count, the share of one image and its side; the
\* division raises ZeroDivisionError for --count 0
BmBudget ==
    /\ bm.pc = "made"
    /\ bm' =
         IF bm.args.count = 0
         THEN [bm EXCEPT !.pc = "failed", !.error = "ZeroDivisionError",
                  !.total_target = BigValue(to_bytes("create_many_bmps",
                                        bm.args.size[1], bm.args.size[2]))]
         ELSE LET total_target == BigValue(to_bytes("create_many_bmps",
                                        bm.args.size[1], bm.args.size[2]))
                  per_image_target == total_target \div bm.args.count
                  pixels_needed ==
                      Max(1, FloorDiv(per_image_target - 54, 3))
              IN  [bm EXCEPT !.pc = "loop",
                      !.total_target = total_target,
                      !.per_image_target = per_image_target,
                      !.side = IntSqrt(pixels_needed),
                      !.i = 0]
    /\ UNCHANGED NotBmps

\* lines 97-100: the image r is written to random_{i+1:05d}.bmp
BmWritten(r) ==
    [bm EXCEPT !.i = bm.i + 1,
               !.global = r.global,
               !.files = Append(bm.files,
                   [name |-> "random_" \o Fmt05d(bm.i + 1) \o ".bmp",
                    size |-> Len(r.bytes),
                    seed |-> bm.i + bm.args.unique_lines])]

\* lines 96-102: one pass of the loop
BmWrite ==
    /\ bm.pc = "loop"
    /\ bm.i < bm.args.count
    /\ bm' = BmWritten(make_bmp(bm.global, bm.side, bm.side,
                                bm.i + bm.args.unique_lines))
    /\ UNCHANGED NotBmps

\* lines 104-106: the loop is over
BmDone ==
    /\ bm.pc = "loop"
    /\ bm.i = bm.args.count
    /\ bm' = [bm EXCEPT !.pc = "done"]
    /\ UNCHANGED NotBmps

BmpsInit ==
    /\ DocxIdle
    /\ LastIdle
    /\ PngIdle
    /\ tx = TxIdle
    /\ sy = SyIdle
    /\ un = UnIdle
    /\ pw = PwIdle
    /\ nz = NzIdle
    /\ BmInit

BmpsNext == BmMakedirs \/ BmBudget \/ BmWrite \/ BmDone

SpecBmps == BmpsInit /\ [][BmpsNext]_vars

-----------------------------------------------------------------------------
(* Properties of the BMP set *)

\* C16: every BMP that create_many_bmps wrote has at least per_image_target
\* bytes, where per_image_target = total_target // count
C16_BmpAtLeastTarget ==
    bm.pc \in {"loop", "done"} =>
        \A k \in 1..Len(bm.files) :
            bm.files[k].size >= bm.per_image_target

-----------------------------------------------------------------------------
(* make_png_set.py with --jobs > 1: a ThreadPoolExecutor runs write_one for  *)
(* every path.  ex.map submits one task per path, in order; at most jobs    *)
(* workers take the tasks from the queue, first in first out, and the main  *)
(* thread collects the results in the order of submission.  A task is the   *)
(* three steps of write_one: payload(i), open(path, "wb") and the write     *)
(* with the close of the file.                                              *)

\* line 153 with every path the first one
PwPath_Shared(i) == "img_" \o Fmt05d(1) \o ".png"

\* line 153: paths[i - 1], without the directory
PwPath(i) == "img_" \o Fmt05d(i) \o ".png"

\* largest --jobs
MaxJobs == 3

\* --num-files below, at and above the number of workers
PwNumFiles == {1, 2, 3}

PwArgs ==
    {a \in [num_files : PwNumFiles, total_bytes : {200}, png_width : {32},
            mode : {"metadata", "pixels", "strong"}, rows_unique : {1, 8}] :
        (a.mode = "strong") <=> (a.rows_unique = 1)}

\* lines 97-107: the arguments with --jobs
PwInit ==
    /\ \E a \in PwArgs :
          ps = [PsIdle EXCEPT !.pc = "start", !.args = a, !.run = 1]
    /\ \E jobs \in 1..MaxJobs :
          pw = [PwIdle EXCEPT !.pc = IF jobs > 1 THEN "wait" ELSE "idle",
                              !.jobs = jobs]

\* lines 166-168: the executor is made and ex.map submits every task
PwStart ==
    /\ ps.pc = "write"
    /\ pw.pc = "wait"
    /\ pw' = [pw EXCEPT !.pc = "running",
                        !.template = ps.template,
                        !.tasks = [i \in 1..ps.args.num_files |->
                                     [pc |-> "queued", data |-> <<>>]]]
    /\ UNCHANGED <<ps, pg>>
    /\ UNCHANGED NotPool

\* the tasks that a worker is running
PwBusy == {i \in DOMAIN pw.tasks : pw.tasks[i].pc \in {"payload", "opened"}}

\* line 158: payload(i), which reads the template only
PwData(i, fills) ==
    IF ps.args.mode = "metadata"
    THEN PayloadMetadata(ps.template, ps.tex_len, i)
    ELSE PayloadRows(ps.args.png_width, ps.height, ps.rows_in_period, fills,
                     ps.template, ps.per_size)

\* lines 156-158: a free worker takes the first task of the queue and
\* builds its payload
PwPayload(i) ==
    /\ pw.pc = "running"
    /\ pw.tasks[i].pc = "queued"
    /\ \A j \in 1..(i - 1) : pw.tasks[j].pc # "queued"
    /\ Cardinality(PwBusy) < pw.jobs
    /\ \E fills \in [1..ps.rows_in_period -> TokenFills] :
          pw' = [pw EXCEPT !.tasks[i] =
                     [pc |-> "payload", data |-> PwData(i, fills)]]
    /\ UNCHANGED <<ps, pg>>
    /\ UNCHANGED NotPool

\* line 159: open(path, "wb") makes the file, or empties it
PwOpen(i) ==
    /\ pw.pc = "running"
    /\ pw.tasks[i].pc = "payload"
    /\ pw' = [pw EXCEPT !.tasks[i].pc = "opened",
                        !.disk = [p \in (DOMAIN @) \cup {PwPath(i)} |->
                            IF p # PwPath(i) THEN @[p]
                            ELSE [opens |-> (IF p \in DOMAIN @
                                             THEN @[p].opens ELSE <<>>)
                                             \o <<i>>,
                                  writes |-> IF p \in DOMAIN @
                                             THEN @[p].writes ELSE <<>>,
                                  data |-> <<>>]]]
    /\ UNCHANGED <<ps, pg>>
    /\ UNCHANGED NotPool

\* lines 160-161: the data is written, the file closed and the length
\* returned
PwWrite(i) ==
    /\ pw.pc = "running"
    /\ pw.tasks[i].pc = "opened"
    /\ pw' = [pw EXCEPT !.tasks[i].pc = "returned",
                        !.disk[PwPath(i)].writes = Append(@, i),
                        !.disk[PwPath(i)].data = pw.tasks[i].data]
    /\ UNCHANGED <<ps, pg>>
    /\ UNCHANGED NotPool

\* line 168: list(ex.map(...)) takes the result of the next task, in the
\* order of submission
PwCollect ==
    /\ pw.pc = "running"
    /\ Len(pw.results) < Len(pw.tasks)
    /\ pw.tasks[Len(pw.results) + 1].pc = "returned"
    /\ pw' = [pw EXCEPT !.results =
                 Append(@, [i |-> Len(pw.results) + 1,
                            size |-> Len(pw.tasks[Len(pw.results) + 1].data)])]
    /\ UNCHANGED <<ps, pg>>
    /\ UNCHANGED NotPool

\* lines 168 and 172-174: the executor is shut down, sizes is the list of
\* the results, and the totals are printed
PwSummary ==
    /\ pw.pc = "running"
    /\ Len(pw.results) = Len(pw.tasks)
    /\ pw' = [pw EXCEPT !.pc = "done"]
    /\ ps' = [ps EXCEPT !.pc = "done",
                        !.sizes = [k \in 1..Len(pw.results) |->
                                      pw.results[k].size],
                        !.files = [k \in 1..Len(pw.tasks) |-> pw.tasks[k].data],
                        !.fs = @ \o [k \in 1..Len(pw.tasks) |-> "write"]]
    /\ UNCHANGED pg
    /\ UNCHANGED NotPool

PoolInit ==
    /\ DocxIdle
    /\ LastIdle
    /\ pg = PgIdle
    /\ tx = TxIdle
    /\ sy = SyIdle
    /\ un = UnIdle
    /\ bm = BmIdle
    /\ nz = NzIdle
    /\ PwInit

PoolNext ==
    \/ PsMakedirs
    \/ PsBudget
    \/ PgGrow
    \/ PgReturn
    \/ PsTemplate
    \/ PsWriteOne
    \/ PsSummary
    \/ PwStart
    \/ \E i \in DOMAIN pw.tasks : PwPayload(i)
    \/ \E i \in DOMAIN pw.tasks : PwOpen(i)
    \/ \E i \in DOMAIN pw.tasks : PwWrite(i)
    \/ PwCollect
    \/ PwSummary

SpecPool == PoolInit /\ [][PoolNext]_vars

-----------------------------------------------------------------------------
(* Properties of the pool *)

\* the names of the files of a sequential run, each with its size
PwSequentialFiles ==
    {<<"img_" \o Fmt05d(i) \o ".png", ps.per_size + ps.tex_len>> :
        i \in 1..ps.args.num_files}

\* C17: with --jobs > 1 every path is opened and written by one task, the
\* one of its index, at most once and exactly once when the run is over;
\* the template stays as it was; and the names with their sizes and the
\* list sizes are those of the run with --jobs 1
C17_ParallelIndependent ==
    /\ pw.pc \in {"running", "done"} =>
          /\ \A p \in DOMAIN pw.disk :
                /\ Len(pw.disk[p].opens) = 1
                /\ Len(pw.disk[p].writes) <= 1
                /\ \A k \in 1..Len(pw.disk[p].writes) :
                      pw.disk[p].writes[k] = pw.disk[p].opens[1]
                /\ p = PwPath(pw.disk[p].opens[1])
          /\ pw.template = ps.template
          /\ \A k \in 1..Len(pw.results) : pw.results[k].i = k
    /\ ps.pc = "done" =>
          /\ ps.sizes = [i \in 1..ps.args.num_files |->
                            ps.per_size + ps.tex_len]
          /\ pw.pc = "done" =>
                /\ {<<p, Len(pw.disk[p].data)>> : p \in DOMAIN pw.disk}
                      = PwSequentialFiles
                /\ \A p \in DOMAIN pw.disk : Len(pw.disk[p].writes) = 1
          /\ pw.pc = "idle" =>
                {<<PwPath(i), Len(ps.files[i])>> : i \in 1..Len(ps.files)}
                   = PwSequentialFiles

\* three tasks on two workers: the third file was written before the first,
\* and the run ended with the sizes in the order of the paths
C17_Witness ==
    /\ pw.pc = "done"
    /\ pw.jobs = 2
    /\ Len(pw.tasks) = 3
    /\ ps.args.mode = "pixels"
    /\ pw.tasks[1].data # pw.tasks[3].data
    /\ Len(ps.sizes) = 3

-----------------------------------------------------------------------------
(* Properties of the streaming loop *)

\* weak fairness of TxChunk: ENABLED <<TxChunk>>_vars is written out as the
\* guard of the action, since every TxChunk step changes tx.chunks
TxChunkFair ==
    \/ []<>(~ (tx.pc = "loop" /\ TxLoopCond(tx)))
    \/ []<><<TxChunk>>_vars

\* a run of make_text_only_docx_random that is not stopped from outside:
\* the interpreter takes the next step of the function while there is one
SpecTextFair ==
    /\ TextInit
    /\ [][TextNext]_vars
    /\ WF_vars(TxOpenZip)
    /\ WF_vars(TxHead)
    /\ WF_vars(TxTail)
    /\ TxChunkFair

\* min(chunk_bytes, remaining) of line 144
TxTargetChunk == Min(tx.chunk_bytes, tx.remaining)

\* lines 143-150: a pass of the loop that does not break writes a chunk of 1
\* to min(chunk_bytes, remaining) bytes and takes its length off remaining
TxLedgerStep ==
    (tx.pc = "loop" /\ tx'.pc = "loop") =>
        /\ tx.remaining > 0
        /\ TxTargetChunk > PARA_OVERHEAD + 16
        /\ Len(tx'.stream) = Len(tx.stream) + 1
        /\ Len(tx'.stream[Len(tx'.stream)]) >= 1
        /\ Len(tx'.stream[Len(tx'.stream)]) <= TxTargetChunk
        /\ tx'.remaining = tx.remaining - Len(tx'.stream[Len(tx'.stream)])
        /\ tx'.remaining < tx.remaining
        /\ tx'.remaining >= 0

\* lines 143-146 and 152-154: the loop is left when nothing remains or the
\* next chunk would be at most PARA_OVERHEAD + 16 bytes, and the tail follows
TxLedgerStop ==
    (tx.pc = "loop" /\ tx'.pc # "loop") =>
        /\ tx.remaining = 0 \/ TxTargetChunk <= PARA_OVERHEAD + 16
        /\ tx'.pc = "closed"
        /\ tx'.stream = Append(tx.stream, DOC_TAIL)

\* C18: the loop of write_document_xml_stream ends for every budget,
\* chunk_bytes and para_text_bytes; every pass that does not break writes a
\* chunk of 1 to min(chunk_bytes, remaining) bytes, so remaining decreases
\* and stays at or above 0; the loop stops exactly when remaining is 0 or
\* the next chunk target is at most PARA_OVERHEAD + 16, and then the tail is
\* written
C18_LedgerTerminates ==
    /\ [][TxLedgerStep /\ TxLedgerStop]_vars
    /\ [](tx.remaining >= 0)
    /\ <>(tx.pc = "closed")

\* the loop ran three times with chunks below the paragraph size, stopped
\* with room left that is too small for a chunk, and the tail is written
C18_Witness ==
    /\ tx.pc = "closed"
    /\ tx.chunks >= 3
    /\ tx.remaining > 0
    /\ tx.chunk_bytes < PARA_OVERHEAD + tx.para_text_bytes
    /\ tx.stream[Len(tx.stream)] = DOC_TAIL

-----------------------------------------------------------------------------
(* build_png_bytes of make_target_sized_docx.py, called on its own and by   *)
(* the loop of make_docx with the next seed                                 *)

\* lines 58-67: the filter byte 0 and 3 * width samples for each row, every
\* sample drawn by rng.randrange(0, 512)
TdRaw(width, height, seed) ==
    [k \in 1..((1 + 3 * width) * height) |->
        IF (k - 1) % (1 + 3 * width) = 0 THEN 0
        ELSE randrange(
                Advance(Random(seed),
                        ((k - 1) \div (1 + 3 * width)) * 3 * width
                          + ((k - 1) % (1 + 3 * width)) - 1),
                512)]

\* lines 66 and 69-75: raw[p] = sample raises ValueError for a sample that is
\* no byte value; otherwise the raw data is compressed and framed
TdPngOf(width, height, raw) ==
    IF \E k \in 1..Len(raw) : raw[k] > 255
    THEN [error |-> "ValueError", raw |-> <<>>, png |-> <<>>]
    ELSE [error |-> "none", raw |-> raw,
          png |-> PNG_SIG \o chunk(TypIHDR, IhdrData(width, height))
                          \o chunk(TypIDAT, zlib_compress0(raw))
                          \o chunk(TypIEND, <<>>)]

\* lines 45-75: build_png_bytes of make_target_sized_docx.py
td_build_png_bytes(width, height, seed) ==
    TdPngOf(width, height, TdRaw(width, height, seed))

TdPngSeeds == 0..40

\* a call build_png_bytes(width, height, seed) is about to be made
SyTargetInit ==
    \E w \in {1, 2, 3}, h \in {1, 2}, seed \in TdPngSeeds :
        sy = [SyIdle EXCEPT
                !.pc = "target",
                !.first = SyCallRecord("build_png_bytes", <<w, h, seed>>,
                                       <<>>, <<>>, <<>>)]

\* lines 45-75: the call returns or raises
SyTargetPng ==
    /\ sy.pc = "target"
    /\ sy' = [sy EXCEPT
                !.pc = "target_one",
                !.first.out = td_build_png_bytes(sy.first.args[1],
                                  sy.first.args[2], sy.first.args[3])]
    /\ UNCHANGED NotSynth

\* lines 138-140: the loop of make_docx calls again with seed + 1
SyTargetNext ==
    /\ sy.pc = "target_one"
    /\ sy.first.out.error = "none"
    /\ sy' = [sy EXCEPT
                !.pc = "target_two",
                !.second = SyCallRecord(
                    "build_png_bytes",
                    <<sy.first.args[1], sy.first.args[2],
                      sy.first.args[3] + 1>>,
                    td_build_png_bytes(sy.first.args[1], sy.first.args[2],
                                       sy.first.args[3] + 1),
                    <<>>, <<>>)]
    /\ UNCHANGED NotSynth

TargetPngInit ==
    /\ DocxIdle
    /\ PngIdle
    /\ tx = TxIdle
    /\ LaterIdle
    /\ SyTargetInit

TargetPngNext == SyTargetPng \/ SyTargetNext

SpecTargetPng == TargetPngInit /\ [][TargetPngNext]_vars

\* the call c returned a PNG of height * (1 + 3 * width) raw bytes, all of
\* them byte values
TdPngValid(c) ==
    /\ c.out.error = "none"
    /\ Len(c.out.raw) = c.args[2] * (1 + 3 * c.args[1])
    /\ \A k \in 1..Len(c.out.raw) : c.out.raw[k] \in 0..255

\* C19: for every width >= 1, height >= 1 and seed, build_png_bytes of
\* make_target_sized_docx returns without error a PNG whose raw data has
\* height * (1 + 3 * width) bytes, each sample in 0..255, and the PNGs of
\* different seeds have the same length
C19_PngValidAndSizeStable ==
    /\ sy.pc \in {"target_one", "target_two"} => TdPngValid(sy.first)
    /\ sy.pc = "target_two" =>
          /\ TdPngValid(sy.second)
          /\ Len(sy.second.out.png) = Len(sy.first.out.png)

-----------------------------------------------------------------------------
(* create_zip_with_recursion.py: build_nested_archives.  A path is the      *)
(* sequence of its names below base_dir; the directory tree is a set of     *)
(* directories and a set of files, each file a path with its content; the   *)
(* content of an archive is the set of its entries.                         *)

\* f"level{i}"
LevelName(i) == "level" \o Str(i)

\* line 57: base_dir.joinpath(*[f"level{j}" for j in range(1, i + 1)])
NzFolder(i) == [j \in 1..i |-> LevelName(j)]

\* line 28: directory.with_suffix(".zip"), for a name without a dot
with_suffix_zip(directory) ==
    SubSeq(directory, 1, Len(directory) - 1)
      \o <<directory[Len(directory)] \o ".zip">>

\* line 33: full_path.relative_to(directory)
relative_to(full_path, directory) ==
    SubSeq(full_path, Len(directory) + 1, Len(full_path))

\* path is below directory
NzUnder(path, directory) ==
    /\ Len(path) > Len(directory)
    /\ SubSeq(path, 1, Len(directory)) = directory

\* line 53: the text of file.txt
NzText(depth) == [kind |-> "text", depth |-> depth, entries |-> {}]

\* a file that was there before the run
NzNote == [kind |-> "text", depth |-> 0, entries |-> {}]

\* an archive with its entries
NzZip(entries) == [kind |-> "zip", depth |-> 0, entries |-> entries]

\* the levels from the lowest to the highest
NzOrder_Upward(depth) == [k \in 1..depth |-> k]

\* line 56: range(depth, 0, -1)
NzOrder(depth) == [k \in 1..depth |-> depth - k + 1]

\* the files after path was written with content
NzWriteFile(files, path, content) ==
    {f \in files : f.path # path} \cup {[path |-> path, content |-> content]}

\* largest --depth of a modelled run
MaxDepth == 3

\* base_dir before the run: empty, with a file of the user's in level1, or
\* as a run with depth 1 left it
NzBefore ==
    {[dirs |-> {}, files |-> {}],
     [dirs |-> {<<"level1">>},
      files |-> {[path |-> <<"level1", "note.txt">>, content |-> NzNote]}],
     [dirs |-> {<<"level1">>},
      files |-> {[path |-> <<"level1", "file.txt">>, content |-> NzText(1)],
                 [path |-> <<"level1.zip">>,
                  content |-> NzZip({[arcname |-> <<"file.txt">>,
                                      content |-> NzText(1)]})]}]}

\* the depth is refused only when it is negative
NzInvalid_Negative(depth) == depth < 0

\* line 42: if depth < 1
NzInvalid(depth) == depth < 1

\* line 37: the call build_nested_archives(base_dir, depth)
NzInit ==
    \E depth \in (-1)..MaxDepth, before \in NzBefore :
        nz = [NzIdle EXCEPT !.pc = "call", !.depth = depth,
                            !.dirs = before.dirs, !.files = before.files]

\* lines 42-43
NzReject ==
    /\ nz.pc = "call"
    /\ NzInvalid(nz.depth)
    /\ nz' = [nz EXCEPT !.pc = "raised", !.error = "ValueError"]
    /\ UNCHANGED NotNested

\* lines 42-46: the depth is accepted
NzAccept ==
    /\ nz.pc = "call"
    /\ ~ NzInvalid(nz.depth)
    /\ nz' = [nz EXCEPT !.pc = "mkdir", !.i = 1, !.current = <<>>]
    /\ UNCHANGED NotNested

\* lines 47-49: one more level of the folder structure
NzMkdir ==
    /\ nz.pc = "mkdir"
    /\ nz.i <= nz.depth
    /\ nz' = [nz EXCEPT
                !.i = @ + 1,
                !.current = Append(@, LevelName(nz.i)),
                !.dirs = @ \cup {Append(nz.current, LevelName(nz.i))}]
    /\ UNCHANGED NotNested

\* lines 52-53: the text file at the deepest level
NzTextFile ==
    /\ nz.pc = "mkdir"
    /\ nz.i > nz.depth
    /\ nz' = [nz EXCEPT
                !.pc = "zip",
                !.k = 1,
                !.files = NzWriteFile(@, Append(nz.current, "file.txt"),
                                      NzText(nz.depth))]
    /\ UNCHANGED NotNested

\* lines 56-58 and 28-30: the next level of the loop; its archive is opened
\* for writing beside the folder, and os.walk is to visit the files below
\* the folder
NzOpenZip ==
    /\ nz.pc = "zip"
    /\ nz.k <= nz.depth
    /\ nz' = [nz EXCEPT
                !.pc = "walk",
                !.opened = Append(@, with_suffix_zip(
                                        NzFolder(NzOrder(nz.depth)[nz.k]))),
                !.folder = NzFolder(NzOrder(nz.depth)[nz.k]),
                !.zip_path = with_suffix_zip(NzFolder(NzOrder(nz.depth)[nz.k])),
                !.pending = {f.path : f \in {g \in nz.files :
                                NzUnder(g.path, NzFolder(NzOrder(nz.depth)[nz.k]))}},
                !.files = NzWriteFile(
                            @, with_suffix_zip(NzFolder(NzOrder(nz.depth)[nz.k])),
                            NzZip({}))]
    /\ UNCHANGED NotNested

\* the content of the file at path
NzContent(path) == (CHOOSE f \in nz.files : f.path = path).content

\* lines 30-34: os.walk goes top down, so a file of the highest directory
\* that still has files is next, in the order of the directory listing;
\* zf.write stores it under its path relative to the folder
NzWriteEntry ==
    /\ nz.pc = "walk"
    /\ \E path \in nz.pending :
          /\ \A other \in nz.pending : Len(path) <= Len(other)
          /\ nz' = [nz EXCEPT
                      !.pending = @ \ {path},
                      !.files = NzWriteFile(
                          @, nz.zip_path,
                          NzZip(NzContent(nz.zip_path).entries \cup
                                {[arcname |-> relative_to(path, nz.folder),
                                  content |-> NzContent(path)]}))]
    /\ UNCHANGED NotNested

\* lines 29 and 35, 58-59: the walk is over and the archive is closed
NzCloseZip ==
    /\ nz.pc = "walk"
    /\ nz.pending = {}
    /\ nz' = [nz EXCEPT !.pc = "zip", !.k = @ + 1,
                        !.created = Append(@, nz.zip_path)]
    /\ UNCHANGED NotNested

\* line 56: the loop is over
NzReturn ==
    /\ nz.pc = "zip"
    /\ nz.k > nz.depth
    /\ nz' = [nz EXCEPT !.pc = "returned"]
    /\ UNCHANGED NotNested

NestedInit ==
    /\ DocxIdle
    /\ LastIdle
    /\ PngIdle
    /\ tx = TxIdle
    /\ sy = SyIdle
    /\ un = UnIdle
    /\ bm = BmIdle
    /\ pw = PwIdle
    /\ NzInit

NestedNext ==
    \/ NzReject
    \/ NzAccept
    \/ NzMkdir
    \/ NzTextFile
    \/ NzOpenZip
    \/ NzWriteEntry
    \/ NzCloseZip
    \/ NzReturn

SpecNested == NestedInit /\ [][NestedNext]_vars

-----------------------------------------------------------------------------
(* Properties of the nested archives *)

\* the entries of the archive of level i
NzEntries(i) == NzContent(with_suffix_zip(NzFolder(i))).entries

\* the path of file.txt relative to the folder of level i
NzDeepest(i) ==
    [j \in 1..(nz.depth - i) |-> LevelName(i + j)] \o <<"file.txt">>

\* C20: build_nested_archives creates the archives level{depth}.zip down to
\* level1.zip in that order and no other; each lies in the directory that
\* holds the folder it archives and not in that folder; level{i}.zip holds
\* level{i+1}.zip as it was closed, and every archive holds the file.txt of
\* the deepest level under its path relative to the archived folder
C20_NestedArchives ==
    /\ nz.pc \in {"zip", "walk", "returned"} =>
          /\ \A k \in 1..Len(nz.created) :
                /\ nz.created[k] = with_suffix_zip(NzFolder(nz.depth - k + 1))
                /\ ~ NzUnder(nz.created[k], NzFolder(nz.depth - k + 1))
                /\ SubSeq(nz.created[k], 1, Len(nz.created[k]) - 1)
                      = SubSeq(NzFolder(nz.depth - k + 1), 1, nz.depth - k)
                /\ [arcname |-> NzDeepest(nz.depth - k + 1),
                    content |-> NzText(nz.depth)]
                      \in NzEntries(nz.depth - k + 1)
                /\ k > 1 =>
                      [arcname |-> <<LevelName(nz.depth - k + 2) \o ".zip">>,
                       content |-> NzContent(nz.created[k - 1])]
                         \in NzEntries(nz.depth - k + 1)
          /\ nz.opened = nz.created
                            \o (IF nz.pc = "walk" THEN <<nz.zip_path>> ELSE <<>>)
    /\ nz.pc = "returned" => Len(nz.created) = nz.depth

\* a run of depth 3 in a base_dir that an earlier run of depth 1 had used:
\* level3.zip, level2.zip and level1.zip are there, and level1.zip holds
\* level2.zip next to the file.txt of the earlier run
C20_Witness ==
    /\ nz.pc = "returned"
    /\ nz.depth = 3
    /\ nz.created = <<<<"level1", "level2", "level3.zip">>,
                      <<"level1", "level2.zip">>, <<"level1.zip">>>>
    /\ [arcname |-> <<"file.txt">>, content |-> NzText(1)] \in NzEntries(1)
    /\ \E e \in NzEntries(1) : e.arcname = <<"level2.zip">>

-----------------------------------------------------------------------------
(* delete_file_from_all_subfolders.py: delete_file_from_subfolders.  A file  *)
(* is the sequence of the names of its path below root_folder; an answer    *)
(* to the prompt is the sequence of its ASCII codes.                        *)

\* str.lower() of an ASCII string
str_lower(s) ==
    [k \in 1..Len(s) |-> IF s[k] \in 65..90 THEN s[k] + 32 ELSE s[k]]

\* "y"
AnswerY == <<121>>

\* "yes"
AnswerYes == <<121, 101, 115>>

\* the answer is taken as a yes when it begins with y
DlAccepts_Prefix(answer) ==
    Len(answer) >= 1 /\ str_lower(answer)[1] = 121

\* line 54: answer.lower() in ("y", "yes")
DlAccepts(answer) == str_lower(answer) \in {AnswerY, AnswerYes}

\* every attempt is counted
DlCounted_Attempts(deleted_count, unlinked) == deleted_count + 1

\* lines 60-64: deleted_count += 1 is reached only when unlink returned
DlCounted(deleted_count, unlinked) ==
    IF unlinked THEN deleted_count + 1 ELSE deleted_count

\* the trees under root_folder: no file, the target at the root, the target
\* in two folders next to another file, and the target at three depths
DlTrees ==
    {{},
     {<<"target">>},
     {<<"a", "target">>, <<"a", "other">>, <<"b", "target">>},
     {<<"target">>, <<"a", "target">>, <<"a", "b", "target">>, <<"other">>}}

\* y, Y, yes, YES, Yes, yEs, n, N, the empty answer, no, " y", ye, yess
DlAnswers ==
    {<<121>>, <<89>>, <<121, 101, 115>>, <<89, 69, 83>>, <<89, 101, 115>>,
     <<121, 69, 115>>, <<110>>, <<78>>, <<>>, <<110, 111>>, <<32, 121>>,
     <<121, 101>>, <<121, 101, 115, 115>>}

\* line 25: the call
DlInit ==
    \E tree \in DlTrees, confirm \in BOOLEAN :
        dl = [DlIdle EXCEPT !.pc = "call", !.files = tree,
                            !.target_filename = "target",
                            !.confirm = confirm]

\* the files of the tree with the name target_filename
DlMatches ==
    {f \in dl.files : f[Len(f)] = dl.target_filename}

\* c lists the files of S once each, a file before the files of the folders
\* below its own: an order in which os.walk can meet them
DlWalkOrder(c, S) ==
    /\ {c[k] : k \in 1..Len(c)} = S
    /\ \A j, k \in 1..Len(c) :
          (j # k /\ Len(c[j]) < Len(c[k])
                 /\ SubSeq(c[j], 1, Len(c[j]) - 1)
                       = SubSeq(c[k], 1, Len(c[j]) - 1)) => j < k

\* lines 37-44: the walk collects the candidates
DlWalk ==
    /\ dl.pc = "call"
    /\ \E c \in [1..Cardinality(DlMatches) -> DlMatches] :
          /\ DlWalkOrder(c, DlMatches)
          /\ dl' = [dl EXCEPT !.pc = "found", !.candidates = c,
                              !.deleted_count = 0]
    /\ UNCHANGED NotLast
    /\ UNCHANGED <<gd, bf, sz>>

\* lines 46-48: no candidate
DlNothing ==
    /\ dl.pc = "found"
    /\ dl.candidates = <<>>
    /\ dl' = [dl EXCEPT !.pc = "returned", !.result = 0,
                        !.log = Append(@, [ev |-> "none", path |-> <<>>])]
    /\ UNCHANGED NotLast
    /\ UNCHANGED <<gd, bf, sz>>

\* lines 50-53: the candidates are logged and, with confirm, input() waits
\* for the answer
DlPrompt ==
    /\ dl.pc = "found"
    /\ dl.candidates # <<>>
    /\ dl' = [dl EXCEPT
                !.pc = IF dl.confirm THEN "prompt" ELSE "delete",
                !.i = 1,
                !.log = Append(@, [ev |-> IF dl.confirm THEN "prompt"
                                          ELSE "found",
                                   path |-> <<>>])]
    /\ UNCHANGED NotLast
    /\ UNCHANGED <<gd, bf, sz>>

\* lines 53-56: the answer arrives; anything but y or yes cancels
DlAnswer ==
    /\ dl.pc = "prompt"
    /\ \E answer \in DlAnswers :
          dl' = IF DlAccepts(answer)
                THEN [dl EXCEPT !.pc = "delete", !.answer = answer,
                        !.log = Append(@, [ev |-> "answer", path |-> <<>>])]
                ELSE [dl EXCEPT !.pc = "returned", !.answer = answer,
                        !.result = 0,
                        !.log = Append(@, [ev |-> "cancelled",
                                           path |-> <<>>])]
    /\ UNCHANGED NotLast
    /\ UNCHANGED <<gd, bf, sz>>

\* lines 58-64: unlink of the next candidate returns, or raises an exception
\* that is caught and logged
DlUnlink ==
    /\ dl.pc = "delete"
    /\ dl.i <= Len(dl.candidates)
    /\ \E unlinked \in BOOLEAN :
          dl' = [dl EXCEPT
                   !.i = @ + 1,
                   !.files = IF unlinked THEN @ \ {dl.candidates[dl.i]}
                             ELSE @,
                   !.deleted_count = DlCounted(@, unlinked),
                   !.log = Append(@, [ev |-> IF unlinked THEN "deleted"
                                             ELSE "failed",
                                      path |-> dl.candidates[dl.i]])]
    /\ UNCHANGED NotLast
    /\ UNCHANGED <<gd, bf, sz>>

\* lines 66-67
DlReturn ==
    /\ dl.pc = "delete"
    /\ dl.i > Len(dl.candidates)
    /\ dl' = [dl EXCEPT !.pc = "returned", !.result = dl.deleted_count,
                        !.log = Append(@, [ev |-> "done", path |-> <<>>])]
    /\ UNCHANGED NotLast
    /\ UNCHANGED <<gd, bf, sz>>

DeleteInit ==
    /\ DocxIdle
    /\ PngIdle
    /\ tx = TxIdle
    /\ sy = SyIdle
    /\ un = UnIdle
    /\ bm = BmIdle
    /\ pw = PwIdle
    /\ nz = NzIdle
    /\ gd = GdIdle
    /\ bf = BfIdle
    /\ sz = SzIdle
    /\ DlInit

DeleteNext ==
    DlWalk \/ DlNothing \/ DlPrompt \/ DlAnswer \/ DlUnlink \/ DlReturn

SpecDelete == DeleteInit /\ [][DeleteNext]_vars

-----------------------------------------------------------------------------
(* Properties of the deletion *)

\* the events of the log with the name ev
DlEvents(ev) == {k \in 1..Len(dl.log) : dl.log[k].ev = ev}

\* the files that the call has unlinked so far
DlUnlinked == {dl.log[k].path : k \in DlEvents("deleted")}

\* C21: with confirm=True no file is unlinked before the prompt is answered,
\* files are unlinked only after an answer that is y or yes in lower case,
\* and after any other answer the call returns 0 with every file in place
C21_ConfirmBeforeDelete ==
    [][dl.confirm =>
          /\ dl'.files # dl.files =>
                 /\ dl.pc = "delete"
                 /\ DlEvents("answer") # {}
                 /\ str_lower(dl.answer) \in {AnswerY, AnswerYes}
          /\ (dl.pc = "prompt" /\ dl'.pc # "prompt"
                 /\ str_lower(dl'.answer) \notin {AnswerY, AnswerYes}) =>
                 /\ dl'.pc = "returned"
                 /\ dl'.result = 0
                 /\ dl'.files = dl.files
                 /\ DlUnlinked = {}]_vars

\* the answer Yes was given to the prompt for three files and the first
\* file is gone
C21_Witness ==
    /\ dl.confirm
    /\ dl.answer = <<89, 101, 115>>
    /\ Len(dl.candidates) = 3
    /\ dl.pc = "delete"
    /\ dl.i = 2
    /\ dl.candidates[1] \notin dl.files

\* C22: the call returns the number of candidates whose unlink succeeded; a
\* failed unlink is logged and not counted, raises nothing, and the
\* candidates after it are still attempted
C22_CountAndIsolation ==
    /\ dl.pc \in {"delete", "returned"} =>
          /\ dl.deleted_count = Cardinality(DlEvents("deleted"))
          /\ \A k \in DlEvents("failed") : dl.log[k].path \in dl.files
    /\ (dl.pc = "delete" /\ dl.i <= Len(dl.candidates)) =>
          \A k \in 1..(dl.i - 1) :
             \E j \in DlEvents("deleted") \cup DlEvents("failed") :
                dl.log[j].path = dl.candidates[k]
    /\ (dl.pc = "returned" /\ DlEvents("done") # {}) =>
          /\ dl.result = Cardinality(DlUnlinked)
          /\ Cardinality(DlEvents("deleted") \cup DlEvents("failed"))
                = Len(dl.candidates)

\* of three candidates the second could not be deleted: the third was
\* deleted all the same and the call returned 2
C22_Witness ==
    /\ dl.pc = "returned"
    /\ Len(dl.candidates) = 3
    /\ dl.result = 2
    /\ dl.candidates[2] \in dl.files
    /\ dl.candidates[3] \notin dl.files

-----------------------------------------------------------------------------
(* generate_directory_structure.py: create_folder_structure.  A directory   *)
(* is the sequence of the names of its path below base_path; <<>> is        *)
(* base_path itself.                                                        *)

\* lines 30-32
generate_parent_name(base_number, suffix) == ToString(base_number) \o suffix

\* lines 35-37
generate_child_name(base_number, index, date_str, suffix) ==
    ToString(base_number) \o "-" \o ToString(index) \o "_0_NL_"
        \o date_str \o suffix

\* Path.mkdir(parents=True, exist_ok=True): the directory and the missing
\* directories above it
mkdir_parents(dirs, path) ==
    dirs \cup {SubSeq(path, 1, k) : k \in 0..Len(path)}

\* largest --count
MaxFolders == 3

\* the arguments of a call: --start, --count, --suffix, and what base_path
\* holds already
GdArgs ==
    [start_number : {-1, 0, 9, 81000},
     total_folders : -1..MaxFolders,
     date_str : {"20240131"},
     suffix : {"", "_X"},
     subfolder : {"EXTRACTIONS"},
     before : {{}, {<<>>, <<"10">>}}]

\* line 40: the call
GdInit ==
    \E args \in GdArgs :
        gd = [pc |-> "loop", args |-> args, i |-> 1, base_number |-> 0,
              dirs |-> args.before, made |-> <<>>]

\* the folder of the set being made, down to the given level
GdPath(levels) ==
    SubSeq(<<generate_parent_name(gd.base_number, gd.args.suffix),
             generate_child_name(gd.base_number, gd.i, gd.args.date_str,
                                 gd.args.suffix),
             gd.args.subfolder>>, 1, levels)

\* lines 59-65: the next i of range(1, total_folders + 1), its base number
\* and the parent folder
GdParent ==
    /\ gd.pc = "loop"
    /\ gd.i <= gd.args.total_folders
    /\ gd' = [gd EXCEPT
                !.pc = "parent",
                !.base_number = gd.args.start_number + gd.i,
                !.dirs = mkdir_parents(@,
                            <<generate_parent_name(
                                 gd.args.start_number + gd.i,
                                 gd.args.suffix)>>)]
    /\ UNCHANGED NotLast
    /\ UNCHANGED <<dl, bf, sz>>

\* lines 68-70: the child folder
GdChild ==
    /\ gd.pc = "parent"
    /\ gd' = [gd EXCEPT !.pc = "child",
                        !.dirs = mkdir_parents(@, GdPath(2))]
    /\ UNCHANGED NotLast
    /\ UNCHANGED <<dl, bf, sz>>

\* lines 73-76: the subfolder, and the log line
GdSubfolder ==
    /\ gd.pc = "child"
    /\ gd' = [gd EXCEPT !.pc = "loop",
                        !.i = @ + 1,
                        !.dirs = mkdir_parents(@, GdPath(3)),
                        !.made = Append(@, GdPath(3))]
    /\ UNCHANGED NotLast
    /\ UNCHANGED <<dl, bf, sz>>

\* line 59: the range is exhausted
GdReturn ==
    /\ gd.pc = "loop"
    /\ gd.i > gd.args.total_folders
    /\ gd' = [gd EXCEPT !.pc = "returned"]
    /\ UNCHANGED NotLast
    /\ UNCHANGED <<dl, bf, sz>>

FoldersInit ==
    /\ DocxIdle
    /\ PngIdle
    /\ tx = TxIdle
    /\ sy = SyIdle
    /\ un = UnIdle
    /\ bm = BmIdle
    /\ pw = PwIdle
    /\ nz = NzIdle
    /\ dl = DlIdle
    /\ bf = BfIdle
    /\ sz = SzIdle
    /\ GdInit

FoldersNext == GdParent \/ GdChild \/ GdSubfolder \/ GdReturn

SpecFolders == FoldersInit /\ [][FoldersNext]_vars

-----------------------------------------------------------------------------
(* Properties of the folder structure *)

\* the chain of the k-th of the sets when the first set has the base number
\* first
GdChain(first, k) ==
    <<generate_parent_name(first + k - 1, gd.args.suffix),
      generate_child_name(first + k - 1, k, gd.args.date_str,
                          gd.args.suffix),
      gd.args.subfolder>>

\* C23: the call creates exactly total_folders chains parent/child/subfolder
\* (none when total_folders <= 0), and their base numbers are the
\* consecutive integers that start at start_number itself
C23_NumberedFromStart ==
    gd.pc = "returned" =>
        /\ Len(gd.made) = Max(gd.args.total_folders, 0)
        /\ \A k \in 1..Len(gd.made) :
              /\ gd.made[k] = GdChain(gd.args.start_number, k)
              /\ gd.made[k] \in gd.dirs

-----------------------------------------------------------------------------
(* Minimality of the height searches *)

\* C24: the height a search returns is the smallest height (>= 1, resp.
\* >= rows_in_period) whose PNG is at least as long as the per-image target:
\* the PNG with one row fewer is shorter than the target, and the PNG
\* returned exceeds the target by less than one row stride
C24_MinimalHeight ==
    /\ hs.pc = "returned" =>
          /\ hs.png_len >= hs.per_image_target
          /\ hs.height_px > 1 =>
                /\ PngLen(hs.width_px, hs.height_px - 1) < hs.per_image_target
                /\ hs.png_len - hs.per_image_target < 1 + 3 * hs.width_px
    /\ pg.pc = "returned" =>
          /\ pg.png_len >= pg.per_file_target
          /\ pg.height > pg.rows_in_period =>
                /\ PngLen(pg.width, pg.height - 1) < pg.per_file_target
                /\ pg.png_len - pg.per_file_target < 3 * pg.width + 1

-----------------------------------------------------------------------------
(* The size fields of the container headers.  A byte count is written here  *)
(* as the sequence of its digits to the base 256, lowest first and without  *)
(* zeros at the high end, so that counts of 2^32 and more are at hand and   *)
(* the bytes of a packed field are the digits themselves.                   *)

RECURSIVE Count(_)
\* the count n
Count(n) == IF n = 0 THEN <<>> ELSE <<n % 256>> \o Count(n \div 256)

RECURSIVE CountMul(_, _, _)
\* a * c + carry
CountMul(a, c, carry) ==
    IF a = <<>> THEN Count(carry)
    ELSE <<(a[1] * c + carry) % 256>>
           \o CountMul(Tail(a), c, (a[1] * c + carry) \div 256)

\* a + c
CountAdd(a, c) == CountMul(a, 1, c)

\* a > b
CountGreater(a, b) ==
    \/ Len(a) > Len(b)
    \/ /\ Len(a) = Len(b)
       /\ \E k \in 1..Len(a) :
             a[k] > b[k] /\ \A j \in (k + 1)..Len(a) : a[j] = b[j]

RECURSIVE CountNorm(_)
\* the count that the bytes of an unsigned field stand for
CountNorm(b) ==
    IF b # <<>> /\ b[Len(b)] = 0 THEN CountNorm(SubSeq(b, 1, Len(b) - 1))
    ELSE b

\* a packing that keeps the low bytes of a number too large for the field
struct_pack_Wrapped(width, n) ==
    [raised |-> FALSE,
     bytes |-> [k \in 1..width |-> IF k <= Len(n) THEN n[k] ELSE 0]]

\* struct.pack("<I", n) for width 4, struct.pack("<Q", n) for width 8:
\* struct.error for a number that does not fit the field
struct_pack(width, n) ==
    IF Len(n) > width THEN [raised |-> TRUE, bytes |-> <<>>]
    ELSE [raised |-> FALSE,
          bytes |-> [k \in 1..width |-> IF k <= Len(n) THEN n[k] ELSE 0]]

\* a field of a header: the count it describes and the bytes written for it
SzField(name, count, packed) ==
    [name |-> name, count |-> count, bytes |-> packed.bytes,
     escape |-> FALSE]

\* zipfile.py, FileHeader and _write_end_record: the 32-bit size field of an
\* entry in zip64 form is 0xffffffff and the count is in the extra field
SzEscape(name, count) ==
    [name |-> name, count |-> count, bytes |-> <<255, 255, 255, 255>>,
     escape |-> TRUE]

\* zipfile.ZIP64_LIMIT, (1 << 31) - 1
ZIP64_LIMIT == Count(2147483647)

\* zipfile.py, _open_to_write: file_size * 1.05 > ZIP64_LIMIT, which holds
\* from 2045222521 bytes on
SzNearLimit(file_size) == CountGreater(file_size, Count(2045222520))

\* the size fields of the header of a zip entry, local or central:
\* file_size and compress_size, equal for ZIP_STORED
SzZipHeader(container, zip64, file_size) ==
    [container |-> container,
     fields |->
        IF zip64
        THEN <<SzEscape("compress_size", file_size),
               SzEscape("file_size", file_size),
               SzField("zip64 file_size", file_size,
                       struct_pack(8, file_size)),
               SzField("zip64 compress_size", file_size,
                       struct_pack(8, file_size))>>
        ELSE <<SzField("compress_size", file_size,
                       struct_pack(4, file_size)),
               SzField("file_size", file_size, struct_pack(4, file_size))>>]

\* sides of the square image of create_many_bmps.py: the two around 2^32
\* bytes of pixel data among them
SzSides == {1, 2, 17, 1000, 37837, 37838, 46341}

\* 2^31 - 1
SzBelow2To31 == Count(2147483647)

\* 2^32
Sz2To32 == <<0, 0, 0, 0, 1>>

\* byte counts of a chunk, of the streamed part and of a media part
SzCounts ==
    {Count(0), Count(13), Count(70000), Count(2045222520),
     Count(2045222521), SzBelow2To31, CountAdd(SzBelow2To31, 1),
     CountMul(SzBelow2To31, 2, 1), Sz2To32, CountAdd(Sz2To32, 77),
     CountMul(Sz2To32, 3, 5), CountMul(Sz2To32, 256, 0)}

\* the unit whose headers are written
SzInit ==
    \/ \E side \in SzSides :
          sz = [pc |-> "call", op |-> "bmp", side |-> side, n |-> <<>>,
                zip64 |-> FALSE, headers |-> <<>>, error |-> ""]
    \/ \E op \in {"chunk", "stream", "media"}, n \in SzCounts :
          sz = [pc |-> "call", op |-> op, side |-> 0, n |-> n,
                zip64 |-> FALSE, headers |-> <<>>, error |-> ""]

\* the header of make_bmp from what the two packings gave
SzBmpHeader(file_size, pixel_data_size, bfSize, biSizeImage) ==
    IF bfSize.raised \/ biSizeImage.raised
    THEN [sz EXCEPT !.pc = "raised", !.error = "struct.error"]
    ELSE [sz EXCEPT !.pc = "written",
            !.n = file_size,
            !.headers = <<[container |-> "bmp",
                           fields |-> <<SzField("bfSize", file_size, bfSize),
                                        SzField("biSizeImage",
                                                pixel_data_size,
                                                biSizeImage)>>]>>]

\* create_many_bmps.py lines 14-31 and 98-100: the size fields of
\* make_bmp(side, side, seed); the file is written when make_bmp returned
SzMakeBmp ==
    /\ sz.pc = "call"
    /\ sz.op = "bmp"
    /\ LET row_bytes == ((sz.side * 3 + 3) \div 4) * 4
           pixel_data_size == CountMul(Count(row_bytes), sz.side, 0)
           file_size == CountAdd(pixel_data_size, 54)
       IN  sz' = SzBmpHeader(file_size, pixel_data_size,
                             struct_pack(4, file_size),
                             struct_pack(4, pixel_data_size))
    /\ UNCHANGED NotLast
    /\ UNCHANGED <<dl, gd, bf>>

\* the chunk from what the packing of its length gave
SzChunkHeader(length) ==
    IF length.raised
    THEN [sz EXCEPT !.pc = "raised", !.error = "struct.error"]
    ELSE [sz EXCEPT !.pc = "written",
            !.headers = <<[container |-> "png chunk",
                           fields |-> <<SzField("length", sz.n, length)>>]>>]

\* make_png_set.py lines 29-30: _chunk(typ, data) for data of sz.n bytes;
\* ">I" writes the four bytes of "<I" in the opposite order
SzChunk ==
    /\ sz.pc = "call"
    /\ sz.op = "chunk"
    /\ sz' = SzChunkHeader(struct_pack(4, sz.n))
    /\ UNCHANGED NotLast
    /\ UNCHANGED <<dl, gd, bf>>

\* create_big_docx_only_text.py lines 130-132: zf.open(zi, mode="w",
\* force_zip64=True) writes the local header in zip64 form before any data
SzZipOpen ==
    /\ sz.pc = "call"
    /\ sz.op = "stream"
    /\ sz' = [sz EXCEPT !.pc = "streaming", !.zip64 = TRUE,
                !.headers = <<SzZipHeader("local, open", TRUE, <<>>)>>]
    /\ UNCHANGED NotLast
    /\ UNCHANGED <<dl, gd, bf>>

\* create_big_docx_only_text.py lines 133-152: the writes of the stream add
\* up to sz.n bytes; leaving the with block closes the entry, which writes
\* the local header again with the sizes counted
SzZipStream ==
    /\ sz.pc = "streaming"
    /\ sz' = [sz EXCEPT !.pc = "entry",
                !.headers = <<SzZipHeader("local", sz.zip64, sz.n)>>]
    /\ UNCHANGED NotLast
    /\ UNCHANGED <<dl, gd, bf>>

\* make_docx_all_visible_stdlib.py line 186: zf.writestr(zinfo, png_bytes)
\* knows the size when it writes the local header
SzMedia ==
    /\ sz.pc = "call"
    /\ sz.op = "media"
    /\ sz' = [sz EXCEPT !.pc = "entry", !.zip64 = SzNearLimit(sz.n),
                !.headers = <<SzZipHeader("local", SzNearLimit(sz.n),
                                          sz.n)>>]
    /\ UNCHANGED NotLast
    /\ UNCHANGED <<dl, gd, bf>>

\* the with block of the ZipFile is left: close() writes the central
\* directory, in zip64 form for the entries above ZIP64_LIMIT
SzZipClose ==
    /\ sz.pc = "entry"
    /\ sz' = [sz EXCEPT !.pc = "written",
                !.headers = Append(@,
                    SzZipHeader("central",
                                CountGreater(sz.n, ZIP64_LIMIT), sz.n))]
    /\ UNCHANGED NotLast
    /\ UNCHANGED <<dl, gd, bf>>

SizesInit ==
    /\ DocxIdle
    /\ PngIdle
    /\ tx = TxIdle
    /\ sy = SyIdle
    /\ un = UnIdle
    /\ bm = BmIdle
    /\ pw = PwIdle
    /\ nz = NzIdle
    /\ dl = DlIdle
    /\ gd = GdIdle
    /\ bf = BfIdle
    /\ SzInit

SizesNext ==
    SzMakeBmp \/ SzChunk \/ SzZipOpen \/ SzZipStream \/ SzMedia \/ SzZipClose

SpecSizes == SizesInit /\ [][SizesNext]_vars

-----------------------------------------------------------------------------
(* Properties of the size fields *)

\* C25: every size field written into a header of a finished unit holds
\* the number of bytes it describes, for units of 2^32 bytes and more too:
\* no field holds a count reduced modulo 2^32.  The 32-bit size field of a
\* zip entry in zip64 form holds 0xffffffff and the 64-bit field of the
\* same header the count.
C25_SizeFieldsExact ==
    /\ sz.pc \in {"entry", "written"} =>
          \A j \in DOMAIN sz.headers :
             \A k \in DOMAIN sz.headers[j].fields :
                LET h == sz.headers[j]
                    f == h.fields[k]
                IN  /\ sz.n = IF f.name = "biSizeImage"
                              THEN CountAdd(f.count, 54) ELSE f.count
                    /\ IF f.escape
                       THEN \E g \in DOMAIN h.fields :
                               /\ h.fields[g].name = "zip64 " \o f.name
                               /\ CountNorm(h.fields[g].bytes) = f.count
                       ELSE CountNorm(f.bytes) = f.count
    /\ sz.pc = "raised" => sz.headers = <<>>

\* a streamed part of more than 2^32 bytes is in the archive, its count in
\* the 64-bit fields of both headers
C25_Witness ==
    /\ sz.pc = "written"
    /\ sz.op = "stream"
    /\ CountGreater(sz.n, Sz2To32)
    /\ Len(sz.headers) = 2
    /\ \A j \in 1..2 : CountNorm(sz.headers[j].fields[3].bytes) = sz.n

-----------------------------------------------------------------------------
(* The depth that build_nested_archives refuses *)

\* C26: a call with depth < 1 raises ValueError before it creates a
\* directory, a text file or an archive: its only step is the raise, and
\* the tree under base_dir is after it what it was before
C26_InvalidDepthRejected ==
    [][nz.depth < 1 =>
          /\ nz.pc = "call"
          /\ nz'.pc = "raised"
          /\ nz'.error = "ValueError"
          /\ nz'.dirs = nz.dirs
          /\ nz'.files = nz.files
          /\ nz'.opened = <<>>
          /\ nz'.created = <<>>]_vars

\* depth 0 was refused in a base_dir that holds files of an earlier run
C26_Witness ==
    /\ nz.pc = "raised"
    /\ nz.error = "ValueError"
    /\ nz.depth = 0
    /\ Cardinality(nz.files) = 2

-----------------------------------------------------------------------------
(* create_big_text_file.py: create_big_text_file(filename, size, unit).  A   *)
(* line is the sequence of its character codes; the file is the sequence of *)
(* the lines written to it.                                                 *)

\* line 8: string.ascii_letters + string.digits + the punctuation, all of
\* them ASCII, so that a character is a byte of the file
chars ==
    <<97, 98, 99, 100, 101, 102, 103, 104, 105, 106, 107, 108,
      109, 110, 111, 112, 113, 114, 115, 116, 117, 118, 119, 120,
      121, 122, 65, 66, 67, 68, 69, 70, 71, 72, 73, 74,
      75, 76, 77, 78, 79, 80, 81, 82, 83, 84, 85, 86,
      87, 88, 89, 90, 48, 49, 50, 51, 52, 53, 54, 55,
      56, 57, 46, 44, 60, 62, 47, 63, 59, 39, 92, 58,
      34, 124, 91, 93, 123, 125, 61, 43, 45, 95, 33, 64,
      35, 36, 37, 94, 38, 42, 40, 41, 44, 32>>

\* line 9
line_length == 75

\* line 10
batch_size == 100

\* the inner loop is never left early
BfBreak_Never(written, size_bytes) == FALSE

\* lines 20-21: if written >= size_bytes: break
BfBreak(written, size_bytes) == written >= size_bytes

\* line 17: ''.join(random.choices(chars, k=line_length)) + '\n', one word
\* of the module-level generator per character
BfLineOf(global) ==
    [k \in 1..line_length |-> choice(Advance(global, k - 1), chars)] \o <<10>>

\* size and unit: whole and negative byte counts, the counts around one
\* line, two lines and a batch, 1/8 KB, 7.5 KB and 2^-20 GB
BfSizes ==
    {<<[neg |-> FALSE, x |-> Float(Big(k), 0)], "B">> :
        k \in {0, 1, 75, 76, 77, 152, 153, 7599, 7600, 7601}}
      \cup {<<[neg |-> TRUE, x |-> Float(Big(5), 0)], "B">>,
             <<[neg |-> FALSE, x |-> Float(<<1>>, -3)], "KB">>,
             <<[neg |-> FALSE, x |-> Float(Big(15), -1)], "KB">>,
             <<[neg |-> FALSE, x |-> Float(<<1>>, -20)], "GB">>}

\* line 5: the call; the module-level generator was seeded by the system
BfInit ==
    \E a \in BfSizes, g \in {Random(0), Random(7)}, old \in {0, 3} :
        bf = [pc |-> "call", size |-> a[1], unit |-> a[2], global |-> g,
              size_bytes |-> 0, written |-> 0, lines |-> <<>>,
              file |-> [k \in 1..old |-> <<111, 108, 100, 10>>]]

\* lines 6-13: int(size * factor) truncates toward zero; open(filename,
\* 'w') empties the file
BfOpen ==
    /\ bf.pc = "call"
    /\ LET n == BigValue(to_bytes("create_big_text_file", bf.size.x, bf.unit))
       IN  bf' = [bf EXCEPT !.pc = "while",
                    !.size_bytes = IF bf.size.neg THEN 0 - n ELSE n,
                    !.written = 0,
                    !.file = <<>>]
    /\ UNCHANGED NotLast
    /\ UNCHANGED <<dl, gd, sz>>

\* lines 14-15: a batch begins
BfBatch ==
    /\ bf.pc = "while"
    /\ bf.written < bf.size_bytes
    /\ bf' = [bf EXCEPT !.pc = "for", !.lines = <<>>]
    /\ UNCHANGED NotLast
    /\ UNCHANGED <<dl, gd, sz>>

\* the call after line was appended to the batch
BfAppended(line) ==
    [bf EXCEPT
       !.pc = IF \/ BfBreak(bf.written + Len(line), bf.size_bytes)
                 \/ Len(bf.lines) + 1 = batch_size
              THEN "writelines" ELSE "for",
       !.global = Advance(@, line_length),
       !.lines = Append(@, line),
       !.written = @ + Len(line)]

\* lines 16-21: one line of the batch
BfLine ==
    /\ bf.pc = "for"
    /\ bf' = BfAppended(BfLineOf(bf.global))
    /\ UNCHANGED NotLast
    /\ UNCHANGED <<dl, gd, sz>>

\* line 22: f.writelines(lines)
BfWritelines ==
    /\ bf.pc = "writelines"
    /\ bf' = [bf EXCEPT !.pc = "while", !.file = @ \o bf.lines,
                        !.lines = <<>>]
    /\ UNCHANGED NotLast
    /\ UNCHANGED <<dl, gd, sz>>

\* lines 14 and 12: the loop is left and the file closed
BfClose ==
    /\ bf.pc = "while"
    /\ bf.written >= bf.size_bytes
    /\ bf' = [bf EXCEPT !.pc = "closed"]
    /\ UNCHANGED NotLast
    /\ UNCHANGED <<dl, gd, sz>>

TextFileInit ==
    /\ DocxIdle
    /\ PngIdle
    /\ tx = TxIdle
    /\ sy = SyIdle
    /\ un = UnIdle
    /\ bm = BmIdle
    /\ pw = PwIdle
    /\ nz = NzIdle
    /\ dl = DlIdle
    /\ gd = GdIdle
    /\ sz = SzIdle
    /\ BfInit

TextFileNext == BfOpen \/ BfBatch \/ BfLine \/ BfWritelines \/ BfClose

SpecTextFile == TextFileInit /\ [][TextFileNext]_vars

\* weak fairness of the steps of the call: ENABLED <<TextFileNext>>_vars is
\* written out, since a step can be taken, and changes bf, until the file
\* is closed
BfFair ==
    \/ []<>(bf.pc = "closed")
    \/ []<><<TextFileNext>>_vars

\* the interpreter runs the call to its end: a step that can be taken is
\* taken
SpecTextFileFair == TextFileInit /\ [][TextFileNext]_vars /\ BfFair

-----------------------------------------------------------------------------
(* Properties of the text file *)

\* the number of characters in the file
BfTotal == SeqSum([k \in 1..Len(bf.file) |-> Len(bf.file[k])])

\* line has 75 characters of chars and the newline after them
BfWholeLine(line) ==
    /\ Len(line) = 76
    /\ line[76] = 10
    /\ \A k \in 1..75 : \E c \in 1..Len(chars) : line[k] = chars[c]

\* C27: create_big_text_file writes only whole lines of 76 characters, 75
\* random ones and the newline; the total written is the smallest
\* multiple of 76 that is at least size_bytes (0 for size_bytes <= 0), so
\* that the excess is below 76; and the loop ends for every size
C27_WholeLinesSmallestMultiple ==
    /\ [](bf.pc \in {"while", "for", "writelines", "closed"} =>
            /\ \A k \in 1..Len(bf.file) : BfWholeLine(bf.file[k])
            /\ bf.pc = "closed" =>
                  /\ BfTotal = 76 * Len(bf.file)
                  /\ BfTotal = bf.written
                  /\ BfTotal >= bf.size_bytes
                  /\ BfTotal - 76 < Max(bf.size_bytes, 0)
                  /\ bf.size_bytes <= 0 => BfTotal = 0)
    /\ <>(bf.pc = "closed")

\* a size of one byte more than a batch of 100 lines was asked for and the
\* file was closed with 101 lines
C27_Witness ==
    /\ bf.pc = "closed"
    /\ bf.size_bytes = 7601
    /\ Len(bf.file) = 101

-----------------------------------------------------------------------------
(* The shape of the streamed word/document.xml *)

\* the bytes of doc from pos on begin with pat
TxStartsWith(doc, pos, pat) ==
    /\ pos + Len(pat) - 1 <= Len(doc)
    /\ SubSeq(doc, pos, pos + Len(pat) - 1) = pat

\* the position of the first "<" of doc from pos on, Len(doc) + 1 if none
TxNextTag(doc, pos) ==
    IF \E k \in pos..Len(doc) : doc[k] = 60
    THEN CHOOSE k \in pos..Len(doc) :
            doc[k] = 60 /\ \A j \in pos..(k - 1) : doc[j] # 60
    ELSE Len(doc) + 1

RECURSIVE TxParagraphsThen(_, _, _)
\* doc from pos on is zero or more complete paragraphs, PARA_PREFIX, a text
\* without markup and PARA_SUFFIX each, and then exactly the bytes of end
TxParagraphsThen(doc, pos, end) ==
    IF SubSeq(doc, pos, Len(doc)) = end THEN TRUE
    ELSE /\ TxStartsWith(doc, pos, PARA_PREFIX)
         /\ TxStartsWith(doc, TxNextTag(doc, pos + Len(PARA_PREFIX)),
                         PARA_SUFFIX)
         /\ TxParagraphsThen(doc,
                TxNextTag(doc, pos + Len(PARA_PREFIX)) + Len(PARA_SUFFIX),
                end)

\* C28: the streamed document.xml is DOC_HEAD once at the start, then zero
\* or more complete paragraphs PARA_PREFIX + text + PARA_SUFFIX, none of
\* them cut by the end of a chunk or by the budget, then DOC_TAIL once at
\* the end, for every budget, also one too small for any paragraph
C28_DocumentWellFormed ==
    /\ tx.pc \in {"loop", "closed"} =>
          /\ tx.stream[1] = DOC_HEAD
          /\ Len(tx.stream) = 1 + tx.chunks
                                + (IF tx.pc = "closed" THEN 1 ELSE 0)
          /\ \A k \in 2..(1 + tx.chunks) :
                 TxParagraphsThen(tx.stream[k], 1, <<>>)
    /\ tx.pc = "closed" =>
          /\ tx.stream[Len(tx.stream)] = DOC_TAIL
          /\ TxStartsWith(Concat(tx.stream), 1, DOC_HEAD)
          /\ TxParagraphsThen(Concat(tx.stream), Len(DOC_HEAD) + 1, DOC_TAIL)

\* a closed document of two chunks with three paragraphs or more
C28_Witness ==
    /\ tx.pc = "closed"
    /\ tx.chunks = 2
    /\ Len(Concat(tx.stream))
          >= Len(DOC_HEAD) + Len(DOC_TAIL) + 3 * (PARA_OVERHEAD + 32)
    /\ TxParagraphsThen(Concat(tx.stream), Len(DOC_HEAD) + 1, DOC_TAIL)

====
